---- MODULE Spec2Model ----
(***************************************************************************)
(* Model of cmd/registry-replacer: the pull-spec canonicalizer, the        *)
(* Dockerfile candidate extraction, the replacement synthesizer, the       *)
(* pruning reducer, the promotion-Dockerfile reconciler and the driver     *)
(* that runs them over a batch of ci-operator configuration documents.     *)
(*                                                                         *)
(* Strings are sequences of atoms.  An atom is either one of the           *)
(* separator characters "/", ":" or an opaque run of other characters      *)
(* ("a", "ocp", "registry.svc.ci.openshift.org", ...), so that             *)
(* strings.Split on a separator is computed on the model's strings the     *)
(* way the code computes it on bytes.                                      *)
(***************************************************************************)
EXTENDS Integers, Sequences, FiniteSets, TLC

VARIABLES
    pullString,   \* input of orgRepoTagFromPullString
    canonPc,      \* "start" | "done"
    canonRes,     \* result of orgRepoTagFromPullString
    canonId,      \* orgRepoTag.String() of the result
    dockerfile,   \* input of the candidate extraction: a sequence of lines
    extractPc,    \* "start" | "done"
    candidates,   \* result of extractReplacementCandidatesFromDockerfile
    sourceImages, \* result of extractAllSourceImagesFromDockerfile
    opts,         \* the flags of the tool
    promotionMapping, \* promotion target -> Dockerfile path
    files,        \* per document: path -> answer of the file host
    disk,         \* per document: the serialized document in the config dir
    unit,         \* per document: the locals of replacer and its position
    errs,         \* main's slice of errors
    errLock,      \* 0, or the unit that holds the mutex
    wg,           \* counter of the wait group
    mainPc,       \* position of main
    spawned,      \* number of documents handed to the callback
    run,          \* number of the current run of replacer
    writes,       \* per document: the data of the writer calls of this run
    prevRun,      \* per document: outcome of the run before this one
    prs,          \* number of upsertPR calls
    event,        \* the event handed to the ImageStreamTag mapper
    upstream,     \* the function the mapper was made with
    upstreamCalls, \* the requests the mapper has passed to upstream
    queue,        \* the requests the mapper has added to the work queue
    mapperPc      \* "event" | "handled"

canonVars == <<pullString, canonPc, canonRes, canonId>>

extractVars == <<dockerfile, extractPc, candidates, sourceImages>>

envVars == <<opts, promotionMapping, files>>

driverVars == <<envVars, disk, unit, errs, errLock, wg, mainPc, spawned, run, writes,
                prevRun, prs>>

mapperVars == <<event, upstream, upstreamCalls, queue, mapperPc>>

vars == <<canonVars, extractVars, driverVars, mapperVars>>

-----------------------------------------------------------------------------
(* Bounds *)

MaxPullLen == 5

MaxLines == 3

\* documents in a batch
NumDocs == 2

\* image entries in a document
MaxImages == 2

\* runs of replacer on one document
MaxRuns == 2

-----------------------------------------------------------------------------
(* Strings *)

EmptyStr == <<>>

Str(a) == <<a>>

BoundedSeq(S, n) == UNION {[1..k -> S] : k \in 0..n}

\* index of the first occurrence of sep in s, 0 if there is none
IndexOf(s, sep) ==
    IF \E i \in 1..Len(s) : s[i] = sep
    THEN CHOOSE i \in 1..Len(s) : s[i] = sep /\ \A j \in 1..(i-1) : s[j] # sep
    ELSE 0

\* strings.Split(s, sep): all pieces between occurrences of sep
RECURSIVE Split(_, _)
Split(s, sep) ==
    LET i == IndexOf(s, sep)
    IN  IF i = 0
        THEN <<s>>
        ELSE <<SubSeq(s, 1, i-1)>> \o Split(SubSeq(s, i+1, Len(s)), sep)

-----------------------------------------------------------------------------
(* Pull-spec canonicalizer *)

NoError == [failed |-> FALSE, pullString |-> EmptyStr, n |-> 0]

\* the error of orgRepoTagFromPullString names the input and the count
ParseError(s, n) == [failed |-> TRUE, pullString |-> s, n |-> n]

\* a variant that takes the registry host of a three-segment spec as org
orgRepoTagFromPullStringHostAsOrg(pullString_) ==
    LET slashSplit == Split(pullString_, "/")
        n == Len(slashSplit)
        org == IF n = 1 THEN Str("_") ELSE slashSplit[1]
        repoPart == IF n \in {1, 2, 3} THEN slashSplit[n] ELSE EmptyStr
        repoTag == Split(repoPart, ":")
    IN  IF n \notin {1, 2, 3}
        THEN [err |-> ParseError(pullString_, n),
              org |-> EmptyStr, repo |-> EmptyStr, tag |-> Str("latest")]
        ELSE IF Len(repoTag) = 2
        THEN [err |-> NoError, org |-> org, repo |-> repoTag[1], tag |-> repoTag[2]]
        ELSE [err |-> NoError, org |-> org, repo |-> repoPart, tag |-> Str("latest")]

\* a variant that cuts the repo part at its first ':' whatever follows
orgRepoTagFromPullStringFirstColon(pullString_) ==
    LET slashSplit == Split(pullString_, "/")
        n == Len(slashSplit)
        org == IF n = 1 THEN Str("_")
               ELSE IF n = 2 THEN slashSplit[1]
               ELSE IF n = 3 THEN slashSplit[2]
               ELSE EmptyStr
        repoPart == IF n \in {1, 2, 3} THEN slashSplit[n] ELSE EmptyStr
        c == IndexOf(repoPart, ":")
    IN  IF n \notin {1, 2, 3}
        THEN [err |-> ParseError(pullString_, n),
              org |-> EmptyStr, repo |-> EmptyStr, tag |-> Str("latest")]
        ELSE IF c # 0
        THEN [err |-> NoError, org |-> org,
              repo |-> SubSeq(repoPart, 1, c-1),
              tag |-> SubSeq(repoPart, c+1, Len(repoPart))]
        ELSE [err |-> NoError, org |-> org, repo |-> repoPart, tag |-> Str("latest")]

orgRepoTagFromPullString(pullString_) ==
    LET slashSplit == Split(pullString_, "/")
        n == Len(slashSplit)
        org == IF n = 1 THEN Str("_")
               ELSE IF n = 2 THEN slashSplit[1]
               ELSE IF n = 3 THEN slashSplit[2]
               ELSE EmptyStr
        repoPart == IF n \in {1, 2, 3} THEN slashSplit[n] ELSE EmptyStr
        repoTag == Split(repoPart, ":")
    IN  IF n \notin {1, 2, 3}
        THEN [err |-> ParseError(pullString_, n),
              org |-> EmptyStr, repo |-> EmptyStr, tag |-> Str("latest")]
        ELSE IF Len(repoTag) = 2
        THEN [err |-> NoError, org |-> org, repo |-> repoTag[1], tag |-> repoTag[2]]
        ELSE [err |-> NoError, org |-> org, repo |-> repoPart, tag |-> Str("latest")]

\* a variant that joins the parts in another order
orgRepoTagStringRepoFirst(ort) == ort.repo \o Str("_") \o ort.org \o Str("_") \o ort.tag

\* orgRepoTag.String()
orgRepoTagString(ort) == ort.org \o Str("_") \o ort.repo \o Str("_") \o ort.tag

NoOrgRepoTag == [err |-> NoError, org |-> EmptyStr, repo |-> EmptyStr, tag |-> EmptyStr]

-----------------------------------------------------------------------------
(* Dockerfile text, and the imagebuilder parse of it                       *)
(*                                                                         *)
(* A Dockerfile is a sequence of lines, a line a sequence of words         *)
(* (bytes.Fields), a word a string.                                        *)

Lower(a) ==
    CASE a = "FROM" -> "from"
      [] a = "COPY" -> "copy"
      [] a = "ENV" -> "env"
      [] a = "RUN" -> "run"
      [] a = "AS" -> "as"
      [] OTHER -> a

\* bytes.EqualFold / strings.EqualFold of a word with a lower-case literal
EqualFold(w, lit) == Len(w) = 1 /\ Lower(w[1]) = lit

IsFlag(w) == Len(w) >= 1 /\ w[1] = "--from="

RECURSIVE LeadingFlags(_)
LeadingFlags(ws) ==
    IF ws # <<>> /\ IsFlag(Head(ws)) THEN <<Head(ws)>> \o LeadingFlags(Tail(ws)) ELSE <<>>

\* one line as the Dockerfile parser hands it on: the lower-cased command,
\* the builder flags that lead the arguments, and the remaining arguments
ParseLine(words) ==
    LET flags == LeadingFlags(Tail(words))
    IN  [Value |-> Lower(words[1][1]),
         Flags |-> flags,
         Args |-> SubSeq(words, 2 + Len(flags), Len(words))]

\* the parser rejects an old-style "ENV name" that has no value
LineParses(words) ==
    ~(Lower(words[1][1]) = "env" /\ Len(words) = 2 /\ IndexOf(words[2], "=") = 0)

\* imagebuilder.ParseDockerfile
ParseDockerfile(in) ==
    IF \A i \in 1..Len(in) : LineParses(in[i])
    THEN [failed |-> FALSE, Children |-> [i \in 1..Len(in) |-> ParseLine(in[i])]]
    ELSE [failed |-> TRUE, Children |-> <<>>]

\* imagebuilder's extractNameFromNode: the name of "FROM image AS name"
extractNameFromNode(node) ==
    IF node.Value = "from" /\ Len(node.Args) >= 3 /\ EqualFold(node.Args[2], "as")
       /\ Len(node.Args[3]) > 0
    THEN node.Args[3]
    ELSE EmptyStr

\* imagebuilder.NewStages: a new stage starts at the first line and at every
\* FROM; a stage without a name is named by its index
NewStages(children) ==
    LET starts == {i \in 1..Len(children) : i = 1 \/ children[i].Value = "from"}
        stageOf(i) == Cardinality({j \in starts : j <= i}) - 1
        first(i) == CHOOSE j \in starts : j <= i /\ \A k \in starts : k <= i => k <= j
        nameOf(i) == LET name == extractNameFromNode(children[first(i)])
                     IN  IF name = EmptyStr THEN Str(ToString(stageOf(i))) ELSE name
    IN  [i \in 1..Len(children) |-> [Name |-> nameOf(i), Node |-> children[i]]]

\* nodeHasFromRef: the value of the --from= flag of a COPY
nodeHasFromRef(node) ==
    IF \E k \in 1..Len(node.Flags) : IsFlag(node.Flags[k])
    THEN [ok |-> TRUE,
          ref |-> Tail(node.Flags[CHOOSE k \in 1..Len(node.Flags) :
                        IsFlag(node.Flags[k]) /\ \A j \in 1..(k-1) : ~IsFlag(node.Flags[j])])]
    ELSE [ok |-> FALSE, ref |-> EmptyStr]

-----------------------------------------------------------------------------
(* Replacement-candidate extraction *)

ExtractFailed == [failed |-> TRUE, set |-> {}]

\* the loop over stages and their children, in order; names holds the keys
\* of the code's names map (its values are never read)
RECURSIVE ScanStages(_, _, _, _)
ScanStages(items, i, names, found) ==
    IF i > Len(items) THEN found
    ELSE LET child == items[i].Node
         IN  IF child.Value = "from" /\ Len(child.Args) >= 1
             THEN ScanStages(items, i + 1, names \cup {items[i].Name},
                             found \cup {child.Args[1]})
             ELSE IF child.Value = "copy"
             THEN LET r == nodeHasFromRef(child)
                  IN  IF r.ok /\ Len(r.ref) > 0 /\ r.ref \notin names
                      THEN ScanStages(items, i + 1, names, found \cup {r.ref})
                      ELSE ScanStages(items, i + 1, names, found)
             ELSE ScanStages(items, i + 1, names, found)

\* a variant that rejects a FROM without an image
RECURSIVE ScanStagesStrict(_, _, _, _)
ScanStagesStrict(items, i, names, found) ==
    IF i > Len(items) THEN [failed |-> FALSE, set |-> found]
    ELSE LET child == items[i].Node
         IN  IF child.Value = "from" /\ Len(child.Args) = 0
             THEN ExtractFailed
             ELSE IF child.Value = "from"
             THEN ScanStagesStrict(items, i + 1, names \cup {items[i].Name},
                                   found \cup {child.Args[1]})
             ELSE IF child.Value = "copy"
             THEN LET r == nodeHasFromRef(child)
                  IN  IF r.ok /\ Len(r.ref) > 0 /\ r.ref \notin names
                      THEN ScanStagesStrict(items, i + 1, names, found \cup {r.ref})
                      ELSE ScanStagesStrict(items, i + 1, names, found)
             ELSE ScanStagesStrict(items, i + 1, names, found)

extractReplacementCandidatesStrict(dockerfile_) ==
    LET node == ParseDockerfile(dockerfile_)
    IN  IF node.failed THEN ExtractFailed
        ELSE ScanStagesStrict(NewStages(node.Children), 1, {}, {})

\* a variant that takes every --from reference as a candidate
RECURSIVE ScanStagesAllRefs(_, _, _)
ScanStagesAllRefs(items, i, found) ==
    IF i > Len(items) THEN found
    ELSE LET child == items[i].Node
         IN  IF child.Value = "from" /\ Len(child.Args) >= 1
             THEN ScanStagesAllRefs(items, i + 1, found \cup {child.Args[1]})
             ELSE IF child.Value = "copy" /\ nodeHasFromRef(child).ok
                     /\ Len(nodeHasFromRef(child).ref) > 0
             THEN ScanStagesAllRefs(items, i + 1, found \cup {nodeHasFromRef(child).ref})
             ELSE ScanStagesAllRefs(items, i + 1, found)

extractReplacementCandidatesAllRefs(dockerfile_) ==
    LET node == ParseDockerfile(dockerfile_)
    IN  IF node.failed THEN ExtractFailed
        ELSE [failed |-> FALSE, set |-> ScanStagesAllRefs(NewStages(node.Children), 1, {})]

extractReplacementCandidatesFromDockerfile(dockerfile_) ==
    LET node == ParseDockerfile(dockerfile_)
    IN  IF node.failed THEN ExtractFailed
        ELSE [failed |-> FALSE, set |-> ScanStages(NewStages(node.Children), 1, {}, {})]

\* the line-based extraction: every line whose first word is "from" must
\* have two or four words; the fourth is an alias, and a second word that is
\* an alias seen so far is skipped
RECURSIVE ScanLines(_, _, _, _)
ScanLines(lines, i, aliases, results) ==
    IF i > Len(lines) THEN [failed |-> FALSE, set |-> results]
    ELSE LET words == lines[i]
         IN  IF Len(words) < 1 \/ ~EqualFold(words[1], "from")
             THEN ScanLines(lines, i + 1, aliases, results)
             ELSE IF Len(words) # 2 /\ Len(words) # 4
             THEN ExtractFailed
             ELSE LET aliases2 == IF Len(words) = 4 THEN aliases \cup {words[4]} ELSE aliases
                  IN  IF words[2] \in aliases2
                      THEN ScanLines(lines, i + 1, aliases2, results)
                      ELSE ScanLines(lines, i + 1, aliases2, results \cup {words[2]})

extractAllSourceImagesFromDockerfile(dockerfile_) == ScanLines(dockerfile_, 1, {}, {})

-----------------------------------------------------------------------------
(* Maps, and the sorted string sets of k8s.io/apimachinery/pkg/util/sets *)

EmptyMap == [k \in {} |-> EmptyStr]

MapSet(m, k, v) == [x \in (DOMAIN m) \cup {k} |-> IF x = k THEN v ELSE m[x]]

SeqToSet(s) == {s[i] : i \in 1..Len(s)}

\* byte order of the atoms that occur in pull specs
AtomOrder ==
    <<"/", ":", "_", "a", "b", "base", "builder", "c", "go", "latest", "ocp", "org",
      "other", "registry.svc.ci.openshift.org", "repo", "root", "tag", "x", "y">>

AtomRank(a) ==
    IF \E i \in 1..Len(AtomOrder) : AtomOrder[i] = a
    THEN CHOOSE i \in 1..Len(AtomOrder) : AtomOrder[i] = a
    ELSE Len(AtomOrder) + 1

\* s < t in the lexicographic order of Go strings
RECURSIVE StrLess(_, _)
StrLess(s, t) ==
    IF t = <<>> THEN FALSE
    ELSE IF s = <<>> THEN TRUE
    ELSE IF AtomRank(Head(s)) # AtomRank(Head(t)) THEN AtomRank(Head(s)) < AtomRank(Head(t))
    ELSE StrLess(Tail(s), Tail(t))

\* sets.String.List(): the members in ascending order
RECURSIVE SortedList(_)
SortedList(S) ==
    IF S = {} THEN <<>>
    ELSE LET least == CHOOSE s \in S : \A t \in S \ {s} : StrLess(s, t)
         IN  <<least>> \o SortedList(S \ {least})

-----------------------------------------------------------------------------
(* The configuration document (api.ReleaseBuildConfiguration)              *)
(*   Images      sequence of image entries                                 *)
(*   BaseImages  map: identifier -> [Namespace, Name, Tag]                 *)
(*   Promotion   [set, Namespace, Name] (PromotionConfiguration, optional) *)
(*   Branch      Metadata.Branch                                           *)
(* An image entry: From, To, ContextDir, DockerfilePath, Inputs, where     *)
(* Inputs is a map: key -> [As: sequence of strings, Paths: sequence].     *)
(* File paths are sequences of path elements.                              *)

Registry == "registry.svc.ci.openshift.org"

NoPromotion == [set |-> FALSE, Namespace |-> EmptyStr, Name |-> EmptyStr]

NoInputRecord == [As |-> <<>>, Paths |-> <<>>]

\* yaml.Marshal: maps are written as key-sorted lists of entries, so a map
\* becomes the set of its entries; empty fields are omitted alike whether nil
\* or empty
MarshalImage(image) ==
    [from |-> image.From,
     to |-> image.To,
     context_dir |-> image.ContextDir,
     dockerfile_path |-> image.DockerfilePath,
     inputs |-> {<<k, image.Inputs[k].As, image.Inputs[k].Paths>> : k \in DOMAIN image.Inputs}]

Marshal(config) ==
    [base_images |-> {<<k, config.BaseImages[k].Namespace, config.BaseImages[k].Name,
                        config.BaseImages[k].Tag>> : k \in DOMAIN config.BaseImages},
     images |-> [i \in 1..Len(config.Images) |-> MarshalImage(config.Images[i])],
     promotion |-> config.Promotion,
     branch |-> config.Branch]

UnmarshalImage(y) ==
    [From |-> y.from,
     To |-> y.to,
     ContextDir |-> y.context_dir,
     DockerfilePath |-> y.dockerfile_path,
     Inputs |-> [k \in {e[1] : e \in y.inputs} |->
                    LET e == CHOOSE e \in y.inputs : e[1] = k
                    IN  [As |-> e[2], Paths |-> e[3]]]]

\* yaml.Unmarshal, as config.OperateOnCIOperatorConfigDir loads a document
Unmarshal(data) ==
    [Images |-> [i \in 1..Len(data.images) |-> UnmarshalImage(data.images[i])],
     BaseImages |-> [k \in {e[1] : e \in data.base_images} |->
                       LET e == CHOOSE e \in data.base_images : e[1] = k
                       IN  [Namespace |-> e[2], Name |-> e[3], Tag |-> e[4]]],
     Promotion |-> data.promotion,
     Branch |-> data.branch]

-----------------------------------------------------------------------------
(* File getter: fileMap maps a path to the answer of the host *)

StatusOK == 200
StatusNotFound == 404

\* a variant for which a 404 is an error like any other status than 200
FileGetterNotFoundIsError(fileMap, path) ==
    IF path \notin DOMAIN fileMap
    THEN [failed |-> FALSE, body |-> <<>>]
    ELSE IF fileMap[path].code # StatusOK \/ fileMap[path].unreadable
    THEN [failed |-> TRUE, body |-> <<>>]
    ELSE [failed |-> FALSE, body |-> fileMap[path].body]

\* github.FileGetter: the answer of the host to the GET of a path is its
\* status code (0 when the request failed and there is no response), the
\* body, and whether reading the body fails. A failed request is an error;
\* a 404 (or no such file) is empty content and no error; then a body that
\* cannot be read is an error, and so is any other status than 200
FileGetter(fileMap, path) ==
    IF path \notin DOMAIN fileMap
    THEN [failed |-> FALSE, body |-> <<>>]
    ELSE IF fileMap[path].code = 0
    THEN [failed |-> TRUE, body |-> <<>>]
    ELSE IF fileMap[path].code = StatusNotFound
    THEN [failed |-> FALSE, body |-> <<>>]
    ELSE IF fileMap[path].unreadable
    THEN [failed |-> TRUE, body |-> <<>>]
    ELSE IF fileMap[path].code # StatusOK
    THEN [failed |-> TRUE, body |-> <<>>]
    ELSE [failed |-> FALSE, body |-> fileMap[path].body]

\* filepath.Join of two relative paths
PathJoin(dir, path) == dir \o path

DefaultDockerfile == <<"Dockerfile">>

-----------------------------------------------------------------------------
(* Build-time simulation *)

Upper(a) ==
    CASE a = "from" -> "FROM"
      [] a = "copy" -> "COPY"
      [] a = "env" -> "ENV"
      [] a = "run" -> "RUN"
      [] OTHER -> a

\* replaceLastFrom: the image of the last FROM becomes image
replaceLastFrom(children, image) ==
    LET froms == {i \in 1..Len(children) : children[i].Value = "from"}
    IN  IF froms = {} THEN children
        ELSE LET last == CHOOSE i \in froms : \A j \in froms : j <= i
             IN  [children EXCEPT ![last].Args =
                     IF @ = <<>> THEN <<image>> ELSE [@ EXCEPT ![1] = image]]

\* dockerfile.Write: each node as the upper-cased command, its flags and
\* its arguments
DockerfileWrite(children) ==
    [i \in 1..Len(children) |->
        <<Str(Upper(children[i].Value))>> \o children[i].Flags \o children[i].Args]

\* applyReplacementsToDockerfile
applyReplacementsToDockerfile(in, image) ==
    IF image.From = EmptyStr THEN [failed |-> FALSE, out |-> in]
    ELSE LET node == ParseDockerfile(in)
         IN  IF node.failed THEN [failed |-> TRUE, out |-> <<>>]
             ELSE [failed |-> FALSE,
                   out |-> DockerfileWrite(replaceLastFrom(node.Children, image.From))]

-----------------------------------------------------------------------------
(* Replacement synthesizer *)

LineContains(line, atom) ==
    \E w \in 1..Len(line) : \E i \in 1..Len(line[w]) : line[w][i] = atom

\* where registryRegex matches in a word: the host, a '/', and at least one
\* more character; the match runs to the end of the word
MatchStarts(word) ==
    {i \in 1..Len(word) : word[i] = Registry /\ i + 2 <= Len(word) /\ word[i+1] = "/"}

\* registryRegex.Find(line): the leftmost match, EmptyStr if there is none
RegistryFind(line) ==
    LET ws == {w \in 1..Len(line) : MatchStarts(line[w]) # {}}
    IN  IF ws = {} THEN EmptyStr
        ELSE LET w == CHOOSE w \in ws : \A v \in ws : w <= v
                 i == CHOOSE i \in MatchStarts(line[w]) : \A j \in MatchStarts(line[w]) : i <= j
             IN  SubSeq(line[w], i, Len(line[w]))

\* the first loop of ensureReplacement: the tokens to replace, in line order
RECURSIVE ToReplace(_, _)
ToReplace(dockerfile_, i) ==
    IF i > Len(dockerfile_) THEN <<>>
    ELSE IF LineContains(dockerfile_[i], "FROM") /\ LineContains(dockerfile_[i], Registry)
            /\ RegistryFind(dockerfile_[i]) # EmptyStr
         THEN <<RegistryFind(dockerfile_[i])>> \o ToReplace(dockerfile_, i + 1)
         ELSE ToReplace(dockerfile_, i + 1)

\* a variant that looks for the token only under its canonical identifier
hasReplacementForOwnKey(image, target) ==
    \E k \in DOMAIN image.Inputs :
        /\ k = orgRepoTagString(orgRepoTagFromPullString(target))
        /\ target \in SeqToSet(image.Inputs[k].As)

hasReplacementFor(image, target) ==
    \E k \in DOMAIN image.Inputs : target \in SeqToSet(image.Inputs[k].As)

\* a variant that appends the token and leaves the order as it is
InsertAsAppend(as, token) == Append(as, token)

\* sets.NewString(inputs.As...).Insert(toReplace).List()
InsertAs(as, token) == SortedList(SeqToSet(as) \cup {token})

\* a variant in which a found tag replaces the base image under its identifier
AddBaseImagesOverwrite(baseImages, foundTags, i) ==
    LET keys == {orgRepoTagString(foundTags[j]) : j \in i..Len(foundTags)}
        tagOf(k) == foundTags[CHOOSE j \in i..Len(foundTags) : orgRepoTagString(foundTags[j]) = k]
    IN  [k \in (DOMAIN baseImages) \cup keys |->
            IF k \in keys
            THEN [Namespace |-> tagOf(k).org, Name |-> tagOf(k).repo, Tag |-> tagOf(k).tag]
            ELSE baseImages[k]]

\* the loop over foundTags in replacer: a base image is added for an
\* identifier that has none
RECURSIVE AddBaseImages(_, _, _)
AddBaseImages(baseImages, foundTags, i) ==
    IF i > Len(foundTags) THEN baseImages
    ELSE LET key == orgRepoTagString(foundTags[i])
         IN  IF key \in DOMAIN baseImages
             THEN AddBaseImages(baseImages, foundTags, i + 1)
             ELSE AddBaseImages(
                      MapSet(baseImages, key,
                             [Namespace |-> foundTags[i].org, Name |-> foundTags[i].repo,
                              Tag |-> foundTags[i].tag]),
                      foundTags, i + 1)

\* the second loop of ensureReplacement
RECURSIVE EnsureLoop(_, _, _, _)
EnsureLoop(image, toReplace, i, result) ==
    IF i > Len(toReplace) THEN [failed |-> FALSE, image |-> image, result |-> result]
    ELSE LET ort == orgRepoTagFromPullString(toReplace[i])
             key == orgRepoTagString(ort)
             inputs == IF key \in DOMAIN image.Inputs THEN image.Inputs[key] ELSE NoInputRecord
             inputs2 == [inputs EXCEPT !.As = InsertAs(@, toReplace[i])]
         IN  IF ort.err.failed
             THEN [failed |-> TRUE, image |-> image, result |-> <<>>]
             ELSE IF hasReplacementFor(image, toReplace[i])
             THEN EnsureLoop(image, toReplace, i + 1, result)
             ELSE EnsureLoop([image EXCEPT !.Inputs = MapSet(@, key, inputs2)],
                             toReplace, i + 1, Append(result, ort))

ensureReplacement(image, dockerfile_) ==
    EnsureLoop(image, ToReplace(dockerfile_, 1), 1, <<>>)

-----------------------------------------------------------------------------
(* Pruning *)

\* the members of seq at the indexes in keep, in their order
SubSeqAt(seq, keep) ==
    [j \in 1..Cardinality(keep) |->
        seq[CHOOSE i \in keep : Cardinality({h \in keep : h < i}) = j - 1]]

\* the filter of pruneUnusedReplacements
UnusedFilter(replacementCandidates, asDirective, imageKey) ==
    [keep |-> asDirective \in replacementCandidates, failed |-> FALSE]

\* a variant that removes every builder entry
OCPBuilderAnswerDropBuilder(config, ort, imageKey) ==
    IF ort.err.failed THEN [keep |-> FALSE, failed |-> TRUE]
    ELSE IF ort.org # Str("ocp") \/ ort.repo # Str("builder")
    THEN [keep |-> TRUE, failed |-> FALSE]
    ELSE [keep |-> FALSE, failed |-> FALSE]

\* a variant that keeps a builder entry whose input key has no base image
OCPBuilderAnswerKeepUnverified(config, ort, imageKey) ==
    IF ort.err.failed THEN [keep |-> FALSE, failed |-> TRUE]
    ELSE IF ort.org # Str("ocp") \/ ort.repo # Str("builder")
    THEN [keep |-> TRUE, failed |-> FALSE]
    ELSE IF imageKey \notin DOMAIN config.BaseImages
    THEN [keep |-> TRUE, failed |-> FALSE]
    ELSE IF /\ config.BaseImages[imageKey].Namespace = ort.org
            /\ config.BaseImages[imageKey].Name = ort.repo
            /\ config.BaseImages[imageKey].Tag = ort.tag
    THEN [keep |-> TRUE, failed |-> FALSE]
    ELSE [keep |-> FALSE, failed |-> FALSE]

\* a variant that keeps a builder entry whose input key has a base image,
\* whatever that base image is
OCPBuilderAnswerKeepDifferent(config, ort, imageKey) ==
    IF ort.err.failed THEN [keep |-> FALSE, failed |-> TRUE]
    ELSE IF ort.org # Str("ocp") \/ ort.repo # Str("builder")
    THEN [keep |-> TRUE, failed |-> FALSE]
    ELSE IF imageKey \notin DOMAIN config.BaseImages
    THEN [keep |-> FALSE, failed |-> FALSE]
    ELSE [keep |-> TRUE, failed |-> FALSE]

\* the answer of the filter of pruneOCPBuilderReplacements once the As entry
\* is parsed into ort
OCPBuilderAnswer(config, ort, imageKey) ==
    IF ort.err.failed THEN [keep |-> FALSE, failed |-> TRUE]
    ELSE IF ort.org # Str("ocp") \/ ort.repo # Str("builder")
    THEN [keep |-> TRUE, failed |-> FALSE]
    ELSE IF imageKey \notin DOMAIN config.BaseImages
    THEN [keep |-> FALSE, failed |-> FALSE]
    ELSE IF /\ config.BaseImages[imageKey].Namespace = ort.org
            /\ config.BaseImages[imageKey].Name = ort.repo
            /\ config.BaseImages[imageKey].Tag = ort.tag
    THEN [keep |-> TRUE, failed |-> FALSE]
    ELSE [keep |-> FALSE, failed |-> FALSE]

\* the filter of pruneOCPBuilderReplacements
OCPBuilderFilter(config, asDirective, imageKey) ==
    OCPBuilderAnswer(config, orgRepoTagFromPullString(asDirective), imageKey)

\* a call of the asDirectiveFilter; filter is the closure: its kind and
\* what it has captured
CallFilter(filter, asDirective, inputKey) ==
    IF filter.kind = "unused"
    THEN UnusedFilter(filter.captured, asDirective, inputKey)
    ELSE OCPBuilderFilter(filter.captured, asDirective, inputKey)

\* the As entries whose filter call answered keep without an error, in order
KeptAs(as, answer) ==
    SubSeqAt(as, {i \in 1..Len(as) : ~answer[i].failed /\ answer[i].keep})

\* the inner loop of pruneReplacements: the new As of the input under key k
NewAs(as, k, filter) ==
    KeptAs(as, [i \in 1..Len(as) |-> CallFilter(filter, as[i], k)])

\* a variant that deletes every input whose new As is empty
WithNewAsDeleteEmptyAs(inputs, newAs) ==
    [k \in {h \in DOMAIN inputs : Len(newAs[h]) # 0} |-> [inputs[k] EXCEPT !.As = newAs[k]]]

\* an input without As and Paths is deleted, another gets its new As
WithNewAs(inputs, newAs) ==
    [k \in {h \in DOMAIN inputs : Len(newAs[h]) # 0 \/ Len(inputs[h].Paths) # 0} |->
        [inputs[k] EXCEPT !.As = newAs[k]]]

PruneInputs(inputs, filter) ==
    WithNewAs(inputs, [k \in DOMAIN inputs |-> NewAs(inputs[k].As, k, filter)])

\* a variant that drops every image entry without inputs
NonEmptyImagesInputsOnly(images) ==
    SubSeqAt(images, {i \in 1..Len(images) : DOMAIN images[i].Inputs # {}})

\* the image entries that still have an input, a From or a To
NonEmptyImages(images) ==
    SubSeqAt(images, {i \in 1..Len(images) :
                         \/ DOMAIN images[i].Inputs # {}
                         \/ images[i].From # EmptyStr
                         \/ images[i].To # EmptyStr})

PruneImages(images, filter) ==
    NonEmptyImages([i \in 1..Len(images) |->
                       [images[i] EXCEPT !.Inputs = PruneInputs(@, filter)]])

\* the filter calls that return an error: <<image index, key, As index>>
FilterErrors(images, filter) ==
    {e \in UNION {UNION {{<<i, k, j>> : j \in 1..Len(images[i].Inputs[k].As)} :
                          k \in DOMAIN images[i].Inputs} : i \in 1..Len(images)} :
        CallFilter(filter, images[e[1]].Inputs[e[2]].As[e[3]], e[2]).failed}

StopAtError(config, pruned, errors) ==
    IF errors = {} THEN [config |-> pruned, errs |-> {}]
    ELSE [config |-> config, errs |-> {CHOOSE e \in errors : TRUE}]

\* the base images whose key is still the key of an input
UsedBaseImages(baseImages, images) ==
    [k \in {h \in DOMAIN baseImages :
               \E i \in 1..Len(images) : h \in DOMAIN images[i].Inputs} |-> baseImages[k]]

\* a variant that also removes the base images no input is left for
pruneReplacementsDropOrphans(config, filter) ==
    [config |-> [config EXCEPT !.Images = PruneImages(@, filter),
                               !.BaseImages = UsedBaseImages(@, PruneImages(config.Images, filter))],
     errs |-> FilterErrors(config.Images, filter)]

\* a variant that gives up at the first error of the filter
pruneReplacementsStopAtError(config, filter) ==
    StopAtError(config, [config EXCEPT !.Images = PruneImages(@, filter)],
                FilterErrors(config.Images, filter))

\* pruneReplacements: config.Images is replaced also when errors are returned
pruneReplacements(config, filter) ==
    [config |-> [config EXCEPT !.Images = PruneImages(@, filter)],
     errs |-> FilterErrors(config.Images, filter)]

pruneUnusedReplacements(config, replacementCandidates) ==
    pruneReplacements(config, [kind |-> "unused", captured |-> replacementCandidates])

pruneOCPBuilderReplacements(config) ==
    pruneReplacements(config, [kind |-> "ocpBuilder", captured |-> config])

-----------------------------------------------------------------------------
(* Promotion-Dockerfile reconciler *)

\* release.PromotedTags: one tag per image entry with a To, in the namespace
\* and under the name of the promotion configuration
PromotedTags(config) ==
    IF ~config.Promotion.set THEN {}
    ELSE {[Namespace |-> config.Promotion.Namespace, Name |-> config.Promotion.Name,
           Tag |-> config.Images[i].To] :
              i \in {j \in 1..Len(config.Images) : config.Images[j].To # EmptyStr}}

\* a variant that does not look at the branch
updateDockerfilesAnyBranch(config, mapping, majorMinorVersion) ==
    LET promotedTags == {t \in PromotedTags(config) :
                            t.Namespace = Str("ocp") /\ t.Name = majorMinorVersion}
        target(image) == <<Registry, "/", "ocp", "/">> \o majorMinorVersion
                            \o Str(":") \o image.To
        actual(image) == PathJoin(image.ContextDir,
                                  IF image.DockerfilePath # <<>> THEN image.DockerfilePath
                                  ELSE DefaultDockerfile)
        fix(image) ==
            IF /\ \E t \in promotedTags : t.Tag = image.To
               /\ target(image) \in DOMAIN mapping
               /\ mapping[target(image)] # actual(image)
            THEN [image EXCEPT !.ContextDir = <<>>,
                               !.DockerfilePath = mapping[target(image)]]
            ELSE image
    IN  IF promotedTags = {} THEN config
        ELSE [config EXCEPT !.Images = [i \in 1..Len(@) |-> fix(@[i])]]

\* a variant that leaves ContextDir as it is
updateDockerfilesKeepContextDir(config, mapping, majorMinorVersion) ==
    LET promotedTags == {t \in PromotedTags(config) :
                            t.Namespace = Str("ocp") /\ t.Name = majorMinorVersion}
        target(image) == <<Registry, "/", "ocp", "/">> \o majorMinorVersion
                            \o Str(":") \o image.To
        actual(image) == PathJoin(image.ContextDir,
                                  IF image.DockerfilePath # <<>> THEN image.DockerfilePath
                                  ELSE DefaultDockerfile)
        fix(image) ==
            IF /\ \E t \in promotedTags : t.Tag = image.To
               /\ target(image) \in DOMAIN mapping
               /\ mapping[target(image)] # actual(image)
            THEN [image EXCEPT !.DockerfilePath = mapping[target(image)]]
            ELSE image
    IN  IF config.Branch # Str("master") \/ promotedTags = {} THEN config
        ELSE [config EXCEPT !.Images = [i \in 1..Len(@) |-> fix(@[i])]]

updateDockerfilesToMatchOCPBuildData(config, mapping, majorMinorVersion) ==
    LET promotedTags == {t \in PromotedTags(config) :
                            t.Namespace = Str("ocp") /\ t.Name = majorMinorVersion}
        target(image) == <<Registry, "/", "ocp", "/">> \o majorMinorVersion
                            \o Str(":") \o image.To
        actual(image) == PathJoin(image.ContextDir,
                                  IF image.DockerfilePath # <<>> THEN image.DockerfilePath
                                  ELSE DefaultDockerfile)
        fix(image) ==
            IF /\ \E t \in promotedTags : t.Tag = image.To
               /\ target(image) \in DOMAIN mapping
               /\ mapping[target(image)] # actual(image)
            THEN [image EXCEPT !.ContextDir = <<>>,
                               !.DockerfilePath = mapping[target(image)]]
            ELSE image
    IN  IF config.Branch # Str("master") \/ promotedTags = {} THEN config
        ELSE [config EXCEPT !.Images = [i \in 1..Len(@) |-> fix(@[i])]]

-----------------------------------------------------------------------------
(* The driver is not running *)

NoOpts ==
    [pruneUnusedReplacements |-> FALSE, pruneOCPBuilderReplacements |-> FALSE,
     ensureCorrectPromotionDockerfile |-> FALSE, createPR |-> FALSE]

\* no event has been handed to the mapper
MapperIdle ==
    /\ event = [kind |-> "none"]
    /\ upstream = "none"
    /\ upstreamCalls = <<>>
    /\ queue = <<>>
    /\ mapperPc = "idle"

DriverIdle ==
    /\ opts = NoOpts
    /\ promotionMapping = EmptyMap
    /\ files = <<>>
    /\ disk = <<>>
    /\ unit = <<>>
    /\ errs = <<>>
    /\ errLock = 0
    /\ wg = 0
    /\ mainPc = "off"
    /\ spawned = 0
    /\ run = 0
    /\ writes = <<>>
    /\ prevRun = <<>>
    /\ prs = 0

-----------------------------------------------------------------------------
(* Specification of the extraction on bounded Dockerfiles *)

ImgX == Str("x")
ImgY == Str("y")
Builder == Str("builder")

ExtractLines ==
    { <<Str("FROM"), ImgX>>,
      <<Str("FROM"), ImgX, Str("AS"), Builder>>,
      <<Str("from"), ImgY, Str("as"), Builder>>,
      <<Str("FROM"), Builder>>,
      <<Str("from")>>,
      <<Str("COPY"), <<"--from=">> \o Builder, Str("src"), Str("dst")>>,
      <<Str("COPY"), <<"--from=">> \o ImgY, Str("src"), Str("dst")>>,
      <<Str("COPY"), <<"--from=", "0">>, Str("src"), Str("dst")>>,
      <<Str("COPY"), <<"--from=">>, Str("src"), Str("dst")>>,
      <<Str("COPY"), Str("src"), Str("dst")>>,
      <<Str("RUN"), Str("make")>> }

NoExtract == [failed |-> FALSE, set |-> {}]

ExtractIdle ==
    /\ dockerfile = <<>>
    /\ extractPc = "idle"
    /\ candidates = NoExtract
    /\ sourceImages = NoExtract

CanonIdle ==
    /\ pullString = EmptyStr
    /\ canonPc = "idle"
    /\ canonRes = NoOrgRepoTag
    /\ canonId = EmptyStr

InitExtract ==
    /\ MapperIdle
    /\ CanonIdle
    /\ DriverIdle
    /\ dockerfile \in BoundedSeq(ExtractLines, MaxLines)
    /\ extractPc = "start"
    /\ candidates = NoExtract
    /\ sourceImages = NoExtract

\* one call of each extraction on the Dockerfile
Extract ==
    /\ extractPc = "start"
    /\ extractPc' = "done"
    /\ candidates' = extractReplacementCandidatesFromDockerfile(dockerfile)
    /\ sourceImages' = extractAllSourceImagesFromDockerfile(dockerfile)
    /\ UNCHANGED <<dockerfile, canonVars, driverVars, mapperVars>>

SwapLines(df, i) ==
    [k \in 1..Len(df) |-> IF k = i THEN df[i+1] ELSE IF k = i + 1 THEN df[i] ELSE df[k]]

\* the Dockerfile is edited (two adjacent lines change places) and the
\* extraction runs again on the new text
ExtractReordered ==
    /\ extractPc = "done"
    /\ \E i \in 1..(Len(dockerfile) - 1) :
          /\ dockerfile[i] # dockerfile[i+1]
          /\ dockerfile' = SwapLines(dockerfile, i)
    /\ candidates' = extractReplacementCandidatesFromDockerfile(dockerfile')
    /\ sourceImages' = extractAllSourceImagesFromDockerfile(dockerfile')
    /\ UNCHANGED <<extractPc, canonVars, driverVars, mapperVars>>

NextExtract == Extract \/ ExtractReordered

SpecExtract == InitExtract /\ [][NextExtract]_vars

-----------------------------------------------------------------------------
(* Claims about the candidate extraction, stated on the lines of the text *)

FromLines == {p \in 1..Len(dockerfile) : EqualFold(dockerfile[p][1], "from")}

CopyLines == {p \in 1..Len(dockerfile) : EqualFold(dockerfile[p][1], "copy")}

BareFromLines == {p \in FromLines : Len(dockerfile[p]) = 1}

ImageOf(p) == dockerfile[p][2]

\* the name under which the stage that starts at FROM line p is recorded:
\* its AS name, else its index among the stages
StageNameOf(p) ==
    IF Len(dockerfile[p]) >= 4 /\ EqualFold(dockerfile[p][3], "as")
    THEN dockerfile[p][4]
    ELSE Str(ToString(Cardinality({q \in FromLines \cup {1} : q <= p}) - 1))

\* the names of the stages whose FROM directive (with an image) was
\* processed before line p
NamesBefore(p) == {StageNameOf(q) : q \in {q \in FromLines \ BareFromLines : q < p}}

FromImages == {ImageOf(p) : p \in FromLines \ BareFromLines}

HasRef(p) == Len(dockerfile[p]) >= 2 /\ IsFlag(dockerfile[p][2])

RefOf(p) == Tail(dockerfile[p][2])

CopyAdds ==
    {RefOf(p) : p \in {q \in CopyLines : HasRef(q) /\ RefOf(q) # EmptyStr
                                          /\ RefOf(q) \notin NamesBefore(q)}}

\* C8 as stated: a FROM whose image is the name of a stage recorded earlier
\* adds nothing, every other FROM adds its image
C8_Original ==
    extractPc = "done" =>
        /\ ~candidates.failed
        /\ candidates.set =
              {ImageOf(p) : p \in {q \in FromLines \ BareFromLines :
                                      ImageOf(q) \notin NamesBefore(q)}} \cup CopyAdds

\* C9 (amended): COPY --from=ref adds ref iff ref is non-empty and is not
\* the name of a stage whose FROM was processed before the COPY; the result
\* is a set, and repeating a COPY line in place does not change it
C9_CopyFromRule ==
    extractPc = "done" =>
        /\ ~candidates.failed
        /\ candidates.set \ FromImages = CopyAdds \ FromImages
        /\ \A p \in CopyLines :
              (HasRef(p) /\ RefOf(p) # EmptyStr /\ RefOf(p) \notin NamesBefore(p))
                  => RefOf(p) \in candidates.set
        /\ \A p \in CopyLines :
              (p > 1 /\ dockerfile[p] = dockerfile[p-1]) =>
                  extractReplacementCandidatesFromDockerfile(
                      SubSeq(dockerfile, 1, p-1) \o SubSeq(dockerfile, p+1, Len(dockerfile))
                  ).set = candidates.set

\* a COPY that names an earlier stage and a COPY that names an external
\* image were both processed: only the external one is a candidate
C9_Witness ==
    /\ extractPc = "done"
    /\ dockerfile = << <<Str("FROM"), ImgX, Str("AS"), Builder>>,
                       <<Str("COPY"), <<"--from=">> \o Builder, Str("src"), Str("dst")>>,
                       <<Str("COPY"), <<"--from=">> \o ImgY, Str("src"), Str("dst")>> >>
    /\ candidates.set = {ImgX, ImgY}

\* C9 as stated: the rule above, and the order of the directives does not
\* change the result
C9_Original ==
    /\ [](extractPc = "done" =>
            /\ ~candidates.failed
            /\ candidates.set \ FromImages = CopyAdds \ FromImages)
    /\ [][(extractPc = "done" /\ extractPc' = "done" /\ dockerfile' # dockerfile)
             => candidates'.set = candidates.set]_vars

-----------------------------------------------------------------------------
(* Specification of the canonicalizer on bounded inputs *)

PullAlphabet == {"a", "b", "/", ":"}

InitCanon ==
    /\ MapperIdle
    /\ ExtractIdle
    /\ DriverIdle
    /\ pullString \in BoundedSeq(PullAlphabet, MaxPullLen)
    /\ canonPc = "start"
    /\ canonRes = NoOrgRepoTag
    /\ canonId = EmptyStr

\* one call of orgRepoTagFromPullString; callers take the identifier of a
\* successful result only
Canonicalize ==
    /\ canonPc = "start"
    /\ canonPc' = "done"
    /\ canonRes' = orgRepoTagFromPullString(pullString)
    /\ canonId' = IF canonRes'.err.failed THEN EmptyStr ELSE orgRepoTagString(canonRes')
    /\ UNCHANGED <<pullString, extractVars, driverVars, mapperVars>>

NextCanon == Canonicalize

SpecCanon == InitCanon /\ [][NextCanon]_vars

-----------------------------------------------------------------------------
(* Claims about the canonicalizer *)

Positions(s, sep) == {i \in 1..Len(s) : s[i] = sep}

SlashCount == Cardinality(Positions(pullString, "/"))

\* the k-th '/'-delimited segment of pullString (k = 1..SlashCount+1), taken
\* by position
Segment(k) ==
    LET ps == Positions(pullString, "/")
        before == IF k = 1 THEN 0
                  ELSE CHOOSE p \in ps : Cardinality({q \in ps : q < p}) = k - 2
        after == IF k = Cardinality(ps) + 1 THEN Len(pullString) + 1
                 ELSE CHOOSE p \in ps : Cardinality({q \in ps : q < p}) = k - 1
    IN  SubSeq(pullString, before + 1, after - 1)

\* the repo part the segment step selected, rebuilt from the final result
RepoPartIs(seg) ==
    \/ canonRes.repo = seg /\ canonRes.tag = Str("latest")
    \/ canonRes.repo \o Str(":") \o canonRes.tag = seg

\* C6: 1 segment -> org "_", repo the segment; 2 segments -> org segment[0],
\* repo segment[1]; 3 segments -> org segment[1], repo segment[2]; 4 or more
\* segments -> an error naming the input, and no identifier
C6_SegmentRule ==
    canonPc = "done" =>
        /\ SlashCount = 0 =>
              /\ ~canonRes.err.failed
              /\ canonRes.org = Str("_")
              /\ RepoPartIs(Segment(1))
        /\ SlashCount = 1 =>
              /\ ~canonRes.err.failed
              /\ canonRes.org = Segment(1)
              /\ RepoPartIs(Segment(2))
        /\ SlashCount = 2 =>
              /\ ~canonRes.err.failed
              /\ canonRes.org = Segment(2)
              /\ RepoPartIs(Segment(3))
        /\ SlashCount >= 3 =>
              /\ canonRes.err.failed
              /\ canonRes.err.pullString = pullString
              /\ canonId = EmptyStr

\* a three-segment spec with distinct host and org was canonicalized
C6_Witness ==
    /\ canonPc = "done"
    /\ pullString = <<"a", "/", "b", "/", "a">>
    /\ canonRes.org = Str("b")

ColonCount(seg) == Cardinality(Positions(seg, ":"))

LastSegment == Segment(SlashCount + 1)

\* C7 as stated: every repo part that contains a ':' is cut at its first ':'
C7_Original ==
    (canonPc = "done" /\ ~canonRes.err.failed) =>
        LET seg == LastSegment
            c == IndexOf(seg, ":")
        IN  /\ c # 0 => /\ canonRes.repo = SubSeq(seg, 1, c-1)
                        /\ canonRes.tag = SubSeq(seg, c+1, Len(seg))
            /\ c = 0 => canonRes.repo = seg /\ canonRes.tag = Str("latest")
            /\ canonId = canonRes.org \o Str("_") \o canonRes.repo \o Str("_") \o canonRes.tag

\* C7 (amended): the repo part is cut into repo and tag exactly when it
\* contains exactly one ':'; with no ':' or more than one ':' the repo part
\* stays whole and the tag is "latest"; the identifier is org_repo_tag
C7_ExactlyOneColon ==
    (canonPc = "done" /\ ~canonRes.err.failed) =>
        LET seg == LastSegment
            c == IndexOf(seg, ":")
        IN  /\ ColonCount(seg) = 1 => /\ canonRes.repo = SubSeq(seg, 1, c-1)
                                      /\ canonRes.tag = SubSeq(seg, c+1, Len(seg))
            /\ ColonCount(seg) # 1 => canonRes.repo = seg /\ canonRes.tag = Str("latest")
            /\ canonId = canonRes.org \o Str("_") \o canonRes.repo \o Str("_") \o canonRes.tag

\* a repo part with two ':' was canonicalized and kept whole
C7_Witness ==
    /\ canonPc = "done"
    /\ pullString = <<"a", ":", "b", ":", "a">>
    /\ canonRes.tag = Str("latest")
    /\ canonId = <<"_", "_", "a", ":", "b", ":", "a", "_", "latest">>

-----------------------------------------------------------------------------
(* The driver: main, and replacer in one goroutine (unit) per document *)

NoErr == "none"

EmptyConfig ==
    [Images |-> <<>>, BaseImages |-> EmptyMap, Promotion |-> NoPromotion, Branch |-> EmptyStr]

\* the locals of replacer before it is called
IdleUnit ==
    [pc |-> "idle",
     config |-> EmptyConfig,
     originalConfig |-> Marshal(EmptyConfig),
     idx |-> 0,
     allReplacementCandidates |-> {},
     hasNonEmptyDockerfile |-> FALSE,
     err |-> NoErr,
     errAggregate |-> {},
     fetched |-> <<>>,
     errsRead |-> <<>>]

Units == 1..Len(disk)

\* opts.currentRelease
MajorMinor == Str("4.6")

\* the comparison that decides the write always says "changed"
ConfigUnchangedNever(originalConfig, newConfig) == FALSE

\* bytes.Equal(originalConfig, newConfig)
ConfigUnchanged(originalConfig, newConfig) == originalConfig = newConfig

\* the lock is handed out whoever holds it
LockFreeAlways == TRUE

\* errLock.Lock() returns when no goroutine holds the mutex
LockFree == errLock = 0

\* wg.Wait() returns at once
WaitGroupDoneAlways == TRUE

\* wg.Wait() returns when the counter is zero
WaitGroupDone == wg = 0

\* config.OperateOnCIOperatorConfigDir loads the next document and hands it
\* to the callback, which adds to the wait group and starts the goroutine
MainSpawn ==
    /\ mainPc = "operate"
    /\ spawned < Len(disk)
    /\ spawned' = spawned + 1
    /\ wg' = wg + 1
    /\ unit' = [unit EXCEPT ![spawned + 1] =
                   [IdleUnit EXCEPT !.pc = "start", !.config = Unmarshal(disk[spawned + 1])]]
    /\ UNCHANGED <<mapperVars, canonVars, extractVars, envVars, disk, errs, errLock, mainPc, run,
                   writes, prevRun, prs>>

\* wg.Wait(), once OperateOnCIOperatorConfigDir has returned
MainWait ==
    /\ mainPc = "operate"
    /\ spawned = Len(disk)
    /\ WaitGroupDone
    /\ mainPc' = "aggregate"
    /\ UNCHANGED <<mapperVars, canonVars, extractVars, envVars, disk, unit, errs, errLock, wg, spawned,
                   run, writes, prevRun, prs>>

\* the errors are not looked at
MainAggregateIgnoringErrs ==
    /\ mainPc = "aggregate"
    /\ mainPc' = IF ~opts.createPR THEN "exit" ELSE "upsertPR"
    /\ UNCHANGED <<mapperVars, canonVars, extractVars, envVars, disk, unit, errs, errLock, wg, spawned,
                   run, writes, prevRun, prs>>

\* utilerrors.NewAggregate(errs) and the exits of main that follow it
MainAggregate ==
    /\ mainPc = "aggregate"
    /\ mainPc' = IF errs # <<>> THEN "fatal"
                 ELSE IF ~opts.createPR THEN "exit"
                 ELSE "upsertPR"
    /\ UNCHANGED <<mapperVars, canonVars, extractVars, envVars, disk, unit, errs, errLock, wg, spawned,
                   run, writes, prevRun, prs>>

\* upsertPR, which may fail
MainUpsertPR ==
    /\ mainPc = "upsertPR"
    /\ prs' = prs + 1
    /\ \E ok \in BOOLEAN : mainPc' = IF ok THEN "exit" ELSE "fatal"
    /\ UNCHANGED <<mapperVars, canonVars, extractVars, envVars, disk, unit, errs, errLock, wg, spawned,
                   run, writes, prevRun>>

\* replacer up to the loop over the images
UnitStart(u) ==
    /\ unit[u].pc = "start"
    /\ unit' = [unit EXCEPT ![u] =
          IF Len(unit[u].config.Images) = 0
          THEN [@ EXCEPT !.pc = "return"]
          ELSE [@ EXCEPT
                  !.pc = "image",
                  !.idx = 1,
                  !.originalConfig = Marshal(unit[u].config),
                  !.config = IF opts.ensureCorrectPromotionDockerfile
                             THEN updateDockerfilesToMatchOCPBuildData(
                                      unit[u].config, promotionMapping, MajorMinor)
                             ELSE unit[u].config]]
    /\ UNCHANGED <<mapperVars, canonVars, extractVars, envVars, disk, errs, errLock, wg, mainPc,
                   spawned, run, writes, prevRun, prs>>

\* a variant in which the synthesis and the extraction read the fetched text
ImageStepOnFetchedText(st, fileMap) ==
    LET image == st.config.Images[st.idx]
        dockerFilePath == IF image.DockerfilePath # <<>> THEN image.DockerfilePath
                          ELSE DefaultDockerfile
        got == FileGetter(fileMap, PathJoin(image.ContextDir, dockerFilePath))
        applied == applyReplacementsToDockerfile(got.body, image)
        ensured == ensureReplacement(image, got.body)
        extracted == extractReplacementCandidatesFromDockerfile(got.body)
        last == st.idx = Len(st.config.Images)
    IN  IF got.failed
        THEN [st EXCEPT !.pc = "return", !.err = "get",
                        !.fetched = Append(@, PathJoin(image.ContextDir, dockerFilePath))]
        ELSE IF applied.failed
        THEN [st EXCEPT !.pc = "return", !.err = "apply",
                        !.fetched = Append(@, PathJoin(image.ContextDir, dockerFilePath)),
                        !.hasNonEmptyDockerfile = @ \/ Len(got.body) > 0]
        ELSE IF ensured.failed
        THEN [st EXCEPT !.pc = "return", !.err = "ensure",
                        !.fetched = Append(@, PathJoin(image.ContextDir, dockerFilePath)),
                        !.hasNonEmptyDockerfile = @ \/ Len(got.body) > 0,
                        !.config.Images[st.idx] = ensured.image]
        ELSE IF extracted.failed
        THEN [st EXCEPT !.pc = "return", !.err = "extract",
                        !.fetched = Append(@, PathJoin(image.ContextDir, dockerFilePath)),
                        !.hasNonEmptyDockerfile = @ \/ Len(got.body) > 0,
                        !.config.Images[st.idx] = ensured.image,
                        !.config.BaseImages = AddBaseImages(@, ensured.result, 1)]
        ELSE [st EXCEPT !.pc = IF last THEN "prune" ELSE "image",
                        !.idx = @ + 1,
                        !.fetched = Append(@, PathJoin(image.ContextDir, dockerFilePath)),
                        !.hasNonEmptyDockerfile = @ \/ Len(got.body) > 0,
                        !.config.Images[st.idx] = ensured.image,
                        !.config.BaseImages = AddBaseImages(@, ensured.result, 1),
                        !.allReplacementCandidates = @ \cup extracted.set]

\* a variant that fetches the file at the path the document had when it was
\* read
ImageStepConfiguredPath(st, fileMap) ==
    LET image == st.config.Images[st.idx]
        configured == Unmarshal(st.originalConfig).Images[st.idx]
        dockerFilePath == IF configured.DockerfilePath # <<>> THEN configured.DockerfilePath
                          ELSE DefaultDockerfile
        got == FileGetter(fileMap, PathJoin(configured.ContextDir, dockerFilePath))
        applied == applyReplacementsToDockerfile(got.body, image)
        ensured == ensureReplacement(image, applied.out)
        extracted == extractReplacementCandidatesFromDockerfile(applied.out)
        last == st.idx = Len(st.config.Images)
    IN  IF got.failed
        THEN [st EXCEPT !.pc = "return", !.err = "get",
                        !.fetched = Append(@, PathJoin(configured.ContextDir, dockerFilePath))]
        ELSE IF applied.failed
        THEN [st EXCEPT !.pc = "return", !.err = "apply",
                        !.fetched = Append(@, PathJoin(configured.ContextDir, dockerFilePath)),
                        !.hasNonEmptyDockerfile = @ \/ Len(got.body) > 0]
        ELSE IF ensured.failed
        THEN [st EXCEPT !.pc = "return", !.err = "ensure",
                        !.fetched = Append(@, PathJoin(configured.ContextDir, dockerFilePath)),
                        !.hasNonEmptyDockerfile = @ \/ Len(got.body) > 0,
                        !.config.Images[st.idx] = ensured.image]
        ELSE IF extracted.failed
        THEN [st EXCEPT !.pc = "return", !.err = "extract",
                        !.fetched = Append(@, PathJoin(configured.ContextDir, dockerFilePath)),
                        !.hasNonEmptyDockerfile = @ \/ Len(got.body) > 0,
                        !.config.Images[st.idx] = ensured.image,
                        !.config.BaseImages = AddBaseImages(@, ensured.result, 1)]
        ELSE [st EXCEPT !.pc = IF last THEN "prune" ELSE "image",
                        !.idx = @ + 1,
                        !.fetched = Append(@, PathJoin(configured.ContextDir, dockerFilePath)),
                        !.hasNonEmptyDockerfile = @ \/ Len(got.body) > 0,
                        !.config.Images[st.idx] = ensured.image,
                        !.config.BaseImages = AddBaseImages(@, ensured.result, 1),
                        !.allReplacementCandidates = @ \cup extracted.set]

\* a variant that keeps the candidates of the last Dockerfile only
ImageStepOwnCandidates(st, fileMap) ==
    LET image == st.config.Images[st.idx]
        dockerFilePath == IF image.DockerfilePath # <<>> THEN image.DockerfilePath
                          ELSE DefaultDockerfile
        got == FileGetter(fileMap, PathJoin(image.ContextDir, dockerFilePath))
        applied == applyReplacementsToDockerfile(got.body, image)
        ensured == ensureReplacement(image, applied.out)
        extracted == extractReplacementCandidatesFromDockerfile(applied.out)
        last == st.idx = Len(st.config.Images)
    IN  IF got.failed
        THEN [st EXCEPT !.pc = "return", !.err = "get",
                        !.fetched = Append(@, PathJoin(image.ContextDir, dockerFilePath))]
        ELSE IF applied.failed
        THEN [st EXCEPT !.pc = "return", !.err = "apply",
                        !.fetched = Append(@, PathJoin(image.ContextDir, dockerFilePath)),
                        !.hasNonEmptyDockerfile = @ \/ Len(got.body) > 0]
        ELSE IF ensured.failed
        THEN [st EXCEPT !.pc = "return", !.err = "ensure",
                        !.fetched = Append(@, PathJoin(image.ContextDir, dockerFilePath)),
                        !.hasNonEmptyDockerfile = @ \/ Len(got.body) > 0,
                        !.config.Images[st.idx] = ensured.image]
        ELSE IF extracted.failed
        THEN [st EXCEPT !.pc = "return", !.err = "extract",
                        !.fetched = Append(@, PathJoin(image.ContextDir, dockerFilePath)),
                        !.hasNonEmptyDockerfile = @ \/ Len(got.body) > 0,
                        !.config.Images[st.idx] = ensured.image,
                        !.config.BaseImages = AddBaseImages(@, ensured.result, 1)]
        ELSE [st EXCEPT !.pc = IF last THEN "prune" ELSE "image",
                        !.idx = @ + 1,
                        !.fetched = Append(@, PathJoin(image.ContextDir, dockerFilePath)),
                        !.hasNonEmptyDockerfile = @ \/ Len(got.body) > 0,
                        !.config.Images[st.idx] = ensured.image,
                        !.config.BaseImages = AddBaseImages(@, ensured.result, 1),
                        !.allReplacementCandidates = extracted.set]

\* one iteration of the loop over config.Images: fetch, simulate,
\* synthesize, add base images, extract
ImageStep(st, fileMap) ==
    LET image == st.config.Images[st.idx]
        dockerFilePath == IF image.DockerfilePath # <<>> THEN image.DockerfilePath
                          ELSE DefaultDockerfile
        got == FileGetter(fileMap, PathJoin(image.ContextDir, dockerFilePath))
        applied == applyReplacementsToDockerfile(got.body, image)
        ensured == ensureReplacement(image, applied.out)
        extracted == extractReplacementCandidatesFromDockerfile(applied.out)
        last == st.idx = Len(st.config.Images)
    IN  IF got.failed
        THEN [st EXCEPT !.pc = "return", !.err = "get",
                        !.fetched = Append(@, PathJoin(image.ContextDir, dockerFilePath))]
        ELSE IF applied.failed
        THEN [st EXCEPT !.pc = "return", !.err = "apply",
                        !.fetched = Append(@, PathJoin(image.ContextDir, dockerFilePath)),
                        !.hasNonEmptyDockerfile = @ \/ Len(got.body) > 0]
        ELSE IF ensured.failed
        THEN [st EXCEPT !.pc = "return", !.err = "ensure",
                        !.fetched = Append(@, PathJoin(image.ContextDir, dockerFilePath)),
                        !.hasNonEmptyDockerfile = @ \/ Len(got.body) > 0,
                        !.config.Images[st.idx] = ensured.image]
        ELSE IF extracted.failed
        THEN [st EXCEPT !.pc = "return", !.err = "extract",
                        !.fetched = Append(@, PathJoin(image.ContextDir, dockerFilePath)),
                        !.hasNonEmptyDockerfile = @ \/ Len(got.body) > 0,
                        !.config.Images[st.idx] = ensured.image,
                        !.config.BaseImages = AddBaseImages(@, ensured.result, 1)]
        ELSE [st EXCEPT !.pc = IF last THEN "prune" ELSE "image",
                        !.idx = @ + 1,
                        !.fetched = Append(@, PathJoin(image.ContextDir, dockerFilePath)),
                        !.hasNonEmptyDockerfile = @ \/ Len(got.body) > 0,
                        !.config.Images[st.idx] = ensured.image,
                        !.config.BaseImages = AddBaseImages(@, ensured.result, 1),
                        !.allReplacementCandidates = @ \cup extracted.set]

UnitImage(u) ==
    /\ unit[u].pc = "image"
    /\ unit' = [unit EXCEPT ![u] = ImageStep(unit[u], files[u])]
    /\ UNCHANGED <<mapperVars, canonVars, extractVars, envVars, disk, errs, errLock, wg, mainPc,
                   spawned, run, writes, prevRun, prs>>

\* an error of the builder pruning does not stop the write
BuilderPrunedWriteOnError(st, builder) ==
    IF builder.errs # {}
    THEN [st EXCEPT !.pc = "write", !.err = "pruneOCPBuilder",
                    !.errAggregate = builder.errs, !.config = builder.config]
    ELSE IF ConfigUnchanged(st.originalConfig, Marshal(builder.config))
    THEN [st EXCEPT !.pc = "return", !.config = builder.config]
    ELSE [st EXCEPT !.pc = "write", !.config = builder.config]

\* replacer from the result of the builder pruning on: its error, the second
\* marshal and the comparison
BuilderPruned(st, builder) ==
    IF builder.errs # {}
    THEN [st EXCEPT !.pc = "return", !.err = "pruneOCPBuilder",
                    !.errAggregate = builder.errs, !.config = builder.config]
    ELSE IF ConfigUnchanged(st.originalConfig, Marshal(builder.config))
    THEN [st EXCEPT !.pc = "return", !.config = builder.config]
    ELSE [st EXCEPT !.pc = "write", !.config = builder.config]

\* replacer from the result of the unused pruning on: its error, then the
\* builder pruning if it is enabled
UnusedPruned(st, unused) ==
    IF unused.errs # {}
    THEN [st EXCEPT !.pc = "return", !.err = "pruneUnused",
                    !.errAggregate = unused.errs, !.config = unused.config]
    ELSE BuilderPruned(st, IF opts.pruneOCPBuilderReplacements
                           THEN pruneOCPBuilderReplacements(unused.config)
                           ELSE [config |-> unused.config, errs |-> {}])

\* a variant without the guard on empty Dockerfiles
PruneStepAlways(st) ==
    UnusedPruned(st, IF opts.pruneUnusedReplacements
                     THEN pruneUnusedReplacements(st.config, st.allReplacementCandidates)
                     ELSE [config |-> st.config, errs |-> {}])

\* replacer after the loop: the unused pruning if it is enabled and a
\* Dockerfile was not empty, and what follows it
PruneStep(st) ==
    UnusedPruned(st, IF opts.pruneUnusedReplacements /\ st.hasNonEmptyDockerfile
                     THEN pruneUnusedReplacements(st.config, st.allReplacementCandidates)
                     ELSE [config |-> st.config, errs |-> {}])

UnitPrune(u) ==
    /\ unit[u].pc = "prune"
    /\ unit' = [unit EXCEPT ![u] = PruneStep(unit[u])]
    /\ UNCHANGED <<mapperVars, canonVars, extractVars, envVars, disk, errs, errLock, wg, mainPc,
                   spawned, run, writes, prevRun, prs>>

\* writer(newConfig): ioutil.WriteFile, which may fail
UnitWrite(u) ==
    /\ unit[u].pc = "write"
    /\ writes' = [writes EXCEPT ![u] = Append(@, Marshal(unit[u].config))]
    /\ \E ok \in BOOLEAN :
          /\ disk' = IF ok THEN [disk EXCEPT ![u] = Marshal(unit[u].config)] ELSE disk
          /\ unit' = [unit EXCEPT ![u].pc = "return",
                                  ![u].err = IF ok THEN @ ELSE "write"]
    /\ UNCHANGED <<mapperVars, canonVars, extractVars, envVars, errs, errLock, wg, mainPc, spawned,
                   run, prevRun, prs>>

\* replacer has returned to the goroutine: on an error it goes for the lock,
\* else the goroutine ends (the deferred wg.Done)
UnitReturn(u) ==
    /\ unit[u].pc = "return"
    /\ mainPc = "operate"
    /\ IF unit[u].err = NoErr
       THEN /\ unit' = [unit EXCEPT ![u].pc = "done"]
            /\ wg' = wg - 1
       ELSE /\ unit' = [unit EXCEPT ![u].pc = "lock"]
            /\ wg' = wg
    /\ UNCHANGED <<mapperVars, canonVars, extractVars, envVars, disk, errs, errLock, mainPc, spawned,
                   run, writes, prevRun, prs>>

\* errLock.Lock()
UnitLock(u) ==
    /\ unit[u].pc = "lock"
    /\ LockFree
    /\ errLock' = u
    /\ unit' = [unit EXCEPT ![u].pc = "load"]
    /\ UNCHANGED <<mapperVars, canonVars, extractVars, envVars, disk, errs, wg, mainPc, spawned, run,
                   writes, prevRun, prs>>

\* errs = append(errs, err) reads the slice ...
UnitLoad(u) ==
    /\ unit[u].pc = "load"
    /\ unit' = [unit EXCEPT ![u].pc = "store", ![u].errsRead = errs]
    /\ UNCHANGED <<mapperVars, canonVars, extractVars, envVars, disk, errs, errLock, wg, mainPc,
                   spawned, run, writes, prevRun, prs>>

\* ... and stores the slice with the error appended
UnitStore(u) ==
    /\ unit[u].pc = "store"
    /\ errs' = Append(unit[u].errsRead, [unit |-> u, err |-> unit[u].err])
    /\ unit' = [unit EXCEPT ![u].pc = "unlock", ![u].errsRead = <<>>]
    /\ UNCHANGED <<mapperVars, canonVars, extractVars, envVars, disk, errLock, wg, mainPc, spawned,
                   run, writes, prevRun, prs>>

\* errLock.Unlock(), and the deferred wg.Done()
UnitUnlock(u) ==
    /\ unit[u].pc = "unlock"
    /\ errLock' = 0
    /\ wg' = wg - 1
    /\ unit' = [unit EXCEPT ![u].pc = "done"]
    /\ UNCHANGED <<mapperVars, canonVars, extractVars, envVars, disk, errs, mainPc, spawned, run,
                   writes, prevRun, prs>>

\* replacer is called again on the document the run before left on disk,
\* with the same Dockerfiles, mapping and flags
ReplacerRerun(u) ==
    /\ mainPc = "off"
    /\ unit[u].pc = "return"
    /\ run < MaxRuns
    /\ run' = run + 1
    /\ prevRun' = [prevRun EXCEPT ![u] = IF unit[u].err = NoErr THEN "ok" ELSE "failed"]
    /\ writes' = [writes EXCEPT ![u] = <<>>]
    /\ unit' = [unit EXCEPT ![u] =
                   [IdleUnit EXCEPT !.pc = "start", !.config = Unmarshal(disk[u])]]
    /\ UNCHANGED <<mapperVars, canonVars, extractVars, envVars, disk, errs, errLock, wg, mainPc,
                   spawned, prs>>

-----------------------------------------------------------------------------
(* Documents, Dockerfiles and answers of the file host of the specifications *)

TokReg == <<Registry, "/", "org", "/", "repo", ":", "tag">>

TokBld == <<"ocp", "/", "builder", ":", "go">>

TokBad == <<Registry, "/", "a", "/", "b", "/", "c">>

Root == Str("root")

Base == Str("base")

Tgt == Str("tgt")

DockerfileRhel == <<"Dockerfile.rhel">>

DfReg == << <<Str("FROM"), TokReg>> >>

DfX == << <<Str("FROM"), ImgX>> >>

DfY == << <<Str("FROM"), ImgY>> >>

DfBad == << <<Str("FROM"), TokBad>> >>

DfEnv == << <<Str("FROM"), TokReg>>, <<Str("ENV"), Str("a")>> >>

Found(body) == [code |-> StatusOK, body |-> body, unreadable |-> FALSE]

NotFound == [code |-> StatusNotFound, body |-> <<>>, unreadable |-> FALSE]

ServerError == [code |-> 500, body |-> <<>>, unreadable |-> FALSE]

\* the request itself fails: there is no response
TransportFailure == [code |-> 0, body |-> <<>>, unreadable |-> FALSE]

Forbidden == [code |-> 403, body |-> DfReg, unreadable |-> FALSE]

\* reading the body of the response fails
Unreadable(code) == [code |-> code, body |-> <<>>, unreadable |-> TRUE]

Image(from, to, path, inputs) ==
    [From |-> from, To |-> to, ContextDir |-> <<>>, DockerfilePath |-> path,
     Inputs |-> inputs]

As(key, as, paths) == (key :> [As |-> as, Paths |-> paths])

\* the path of the k-th image entry: the first one has none and so gets the
\* default
PathAt(k) ==
    IF k = 1 THEN <<>> ELSE IF k = 2 THEN DockerfileRhel ELSE <<"Dockerfile.other">>

ImageChoices ==
    {Image(EmptyStr, EmptyStr, <<>>, EmptyMap),
     Image(EmptyStr, Tgt, <<>>, EmptyMap),
     Image(Base, EmptyStr, <<>>, EmptyMap),
     Image(EmptyStr, EmptyStr, <<>>, As(Root, <<ImgX>>, <<>>)),
     Image(EmptyStr, Tgt, <<>>, As(Root, <<ImgX>>, <<>>)),
     Image(EmptyStr, EmptyStr, <<>>, As(Root, <<ImgX>>, <<"p">>)),
     Image(EmptyStr, EmptyStr, <<>>, As(Root, <<TokBld>>, <<>>)),
     Image(EmptyStr, EmptyStr, <<>>, As(Root, <<TokBad>>, <<>>)),
     Image(EmptyStr, EmptyStr, <<>>, As(Str("org_repo_tag"), <<TokReg>>, <<>>)),
     Image(Base, Tgt, <<>>, As(Root, <<ImgX>>, <<>>))}

BaseImageChoices ==
    {EmptyMap,
     (Root :> [Namespace |-> Str("ocp"), Name |-> Str("builder"), Tag |-> Str("go")])}

Doc(images, baseImages) ==
    [Images |-> [k \in 1..Len(images) |-> [images[k] EXCEPT !.DockerfilePath = PathAt(k)]],
     BaseImages |-> baseImages,
     Promotion |-> [set |-> TRUE, Namespace |-> Str("ocp"), Name |-> MajorMinor],
     Branch |-> Str("master")]

ReplacerDocs ==
    {Doc(images, b) : images \in BoundedSeq(ImageChoices, MaxImages), b \in BaseImageChoices}

ReplacerFiles ==
    {(DefaultDockerfile :> first) @@ (DockerfileRhel :> second) :
        first \in {NotFound, ServerError, Found(DfReg), Found(DfX), Found(DfBad), Found(DfEnv)},
        second \in {NotFound, Found(DfY)}}

Mapping == (<<Registry, "/", "ocp", "/">> \o MajorMinor \o Str(":") \o Tgt) :> DockerfileRhel

\* a run of replacer on one document, and runs after it
InitReplacer ==
    /\ MapperIdle
    /\ CanonIdle
    /\ ExtractIdle
    /\ opts \in [pruneUnusedReplacements : BOOLEAN, pruneOCPBuilderReplacements : BOOLEAN,
                 ensureCorrectPromotionDockerfile : BOOLEAN, createPR : {FALSE}]
    /\ promotionMapping = Mapping
    /\ \E doc \in ReplacerDocs, f \in ReplacerFiles :
          /\ disk = <<Marshal(doc)>>
          /\ files = <<f>>
          /\ unit = <<[IdleUnit EXCEPT !.pc = "start", !.config = Unmarshal(Marshal(doc))]>>
    /\ errs = <<>>
    /\ errLock = 0
    /\ wg = 0
    /\ mainPc = "off"
    /\ spawned = 0
    /\ run = 1
    /\ writes = << <<>> >>
    /\ prevRun = <<"none">>
    /\ prs = 0

NextReplacer ==
    \/ \E u \in Units : UnitStart(u)
    \/ \E u \in Units : UnitImage(u)
    \/ \E u \in Units : UnitPrune(u)
    \/ \E u \in Units : UnitWrite(u)
    \/ \E u \in Units : ReplacerRerun(u)

SpecReplacer == InitReplacer /\ [][NextReplacer]_vars

\* documents of a batch, each with the files of its repository:
\* one that changes, one that stays, one whose fetch fails, one whose second
\* image entry fails after the first one changed the document
BatchDocs ==
    {[doc |-> Doc(<<Image(EmptyStr, Tgt, <<>>, EmptyMap)>>, EmptyMap),
      files |-> (DefaultDockerfile :> Found(DfReg))],
     [doc |-> Doc(<<Image(EmptyStr, Tgt, <<>>, EmptyMap)>>, EmptyMap),
      files |-> (DefaultDockerfile :> Found(DfX))],
     [doc |-> Doc(<<Image(EmptyStr, Tgt, <<>>, EmptyMap)>>, EmptyMap),
      files |-> (DefaultDockerfile :> ServerError)],
     [doc |-> Doc(<<Image(EmptyStr, Tgt, <<>>, EmptyMap), Image(EmptyStr, Tgt, <<>>, EmptyMap)>>,
                  EmptyMap),
      files |-> (DefaultDockerfile :> Found(DfReg)) @@ (DockerfileRhel :> Found(DfBad))]}

\* main on a directory of NumDocs documents
InitMain ==
    /\ MapperIdle
    /\ CanonIdle
    /\ ExtractIdle
    /\ opts \in [pruneUnusedReplacements : {TRUE}, pruneOCPBuilderReplacements : {FALSE},
                 ensureCorrectPromotionDockerfile : {FALSE}, createPR : BOOLEAN]
    /\ promotionMapping = Mapping
    /\ \E batch \in [1..NumDocs -> BatchDocs] :
          /\ disk = [u \in 1..NumDocs |-> Marshal(batch[u].doc)]
          /\ files = [u \in 1..NumDocs |-> batch[u].files]
    /\ unit = [u \in 1..NumDocs |-> IdleUnit]
    /\ errs = <<>>
    /\ errLock = 0
    /\ wg = 0
    /\ mainPc = "operate"
    /\ spawned = 0
    /\ run = 1
    /\ writes = [u \in 1..NumDocs |-> <<>>]
    /\ prevRun = [u \in 1..NumDocs |-> "none"]
    /\ prs = 0

NextMain ==
    \/ MainSpawn
    \/ MainWait
    \/ MainAggregate
    \/ MainUpsertPR
    \/ \E u \in Units : UnitStart(u)
    \/ \E u \in Units : UnitImage(u)
    \/ \E u \in Units : UnitPrune(u)
    \/ \E u \in Units : UnitWrite(u)
    \/ \E u \in Units : UnitReturn(u)
    \/ \E u \in Units : UnitLock(u)
    \/ \E u \in Units : UnitLoad(u)
    \/ \E u \in Units : UnitStore(u)
    \/ \E u \in Units : UnitUnlock(u)

SpecMain == InitMain /\ [][NextMain]_vars

-----------------------------------------------------------------------------
(* Claims about replacer and main *)

\* replacer has got past the first marshal
PipelineEntered(u) == unit[u].idx > 0

Failed(u) == unit[u].err # NoErr

Changed(u) == PipelineEntered(u) /\ Marshal(unit[u].config) # unit[u].originalConfig

\* C1: in a run of replacer on a document the writer is called at most
\* once, and a call is made only with a serialization of the document, taken
\* after the pipeline, that differs from the one taken before it; with equal
\* serializations there is no call.
C1_WriteOnlyOnChange ==
    \A u \in Units :
        /\ Len(writes[u]) <= 1
        /\ writes[u] # <<>> =>
              /\ PipelineEntered(u)
              /\ writes[u][1] = Marshal(unit[u].config)
              /\ writes[u][1] # unit[u].originalConfig
        /\ (unit[u].pc = "return" /\ ~Changed(u)) => writes[u] = <<>>

\* a run has called the writer and returned without an error
C1_Witness ==
    \E u \in Units :
        /\ unit[u].pc = "return"
        /\ ~Failed(u)
        /\ Len(writes[u]) = 1
        /\ Changed(u)

\* C2 (as stated): after a run of replacer that succeeded, the next run on
\* the document it left, with the same Dockerfiles, mapping and flags, does
\* not call the writer.
C2_Original ==
    \A u \in Units : (run > 1 /\ prevRun[u] = "ok") => writes[u] = <<>>

AfterWait == mainPc \in {"aggregate", "fatal", "exit", "upsertPR"}

\* C3: a document whose unit succeeded and whose serialization changed has
\* been written exactly once and is on disk as written, whatever the other
\* units did; and when a unit has failed, main does not end in success.
C3_PartialFailure ==
    /\ \A v \in Units :
          (unit[v].pc = "done" /\ ~Failed(v) /\ Changed(v)) =>
              /\ Len(writes[v]) = 1
              /\ disk[v] = writes[v][1]
    /\ (AfterWait /\ \E u \in Units : Failed(u)) => mainPc \in {"aggregate", "fatal"}

\* main has ended in failure since one unit failed, and another unit's
\* changed document is on disk
C3_Witness ==
    /\ mainPc = "fatal"
    /\ \E u, v \in Units :
          /\ Failed(u)
          /\ ~Failed(v)
          /\ Changed(v)
          /\ Len(writes[v]) = 1
          /\ disk[v] = writes[v][1]

ErrsOf(u) == {i \in 1..Len(errs) : errs[i].unit = u}

\* C4: when main is past the wait, every unit has finished, and the error
\* list holds one entry for each unit that returned an error and none for
\* the other units.
C4_ErrorsCollected ==
    AfterWait =>
        \A u \in Units :
            /\ unit[u].pc = "done"
            /\ Cardinality(ErrsOf(u)) = IF Failed(u) THEN 1 ELSE 0

\* main is about to aggregate the errors of two failed units
C4_Witness ==
    /\ mainPc = "aggregate"
    /\ Len(errs) >= 2
    /\ \E u, v \in Units : u # v /\ Failed(u) /\ Failed(v)

AbortErrs == {"get", "apply", "ensure", "extract", "pruneUnused", "pruneOCPBuilder"}

\* C5: a run in which the file getter, the simulation, the synthesis, the
\* extraction or a pruning returned an error has not called the writer.
C5_ErrorAbortsWithoutWrite ==
    \A u \in Units : unit[u].err \in AbortErrs => writes[u] = <<>>

\* a run has returned an error after it changed the document in memory
C5_Witness ==
    \E u \in Units :
        /\ unit[u].pc = "return"
        /\ unit[u].err \in AbortErrs
        /\ Changed(u)
        /\ writes[u] = <<>>

-----------------------------------------------------------------------------
(* One iteration of the loop over the images, on bounded Dockerfiles *)

TokOther == <<Registry, "/", "org", "/", "other">>

IdOf(token) == orgRepoTagString(orgRepoTagFromPullString(token))

ImageLines ==
    { <<Str("FROM"), TokReg>>,
      <<Str("FROM"), TokOther, Str("as"), Str("repo")>>,
      <<Str("from"), TokReg>>,
      <<Str("FROM"), ImgX>>,
      <<Str("RUN"), Str("FROM"), TokOther>>,
      <<Str("FROM"), TokBad>>,
      <<Str("COPY"), <<"--from=">> \o TokOther, Str("src"), Str("dst")>>,
      <<Str("ENV"), Str("a")>> }

ImageInputChoices ==
    { EmptyMap,
      As(Root, <<TokReg>>, <<>>),
      As(IdOf(TokReg), <<ImgY, ImgX>>, <<>>),
      As(IdOf(TokOther), <<TokOther>>, <<"p">>) }

ImageBaseChoices ==
    { EmptyMap,
      (IdOf(TokReg) :> [Namespace |-> Str("other"), Name |-> Str("other"), Tag |-> Str("other")]) }

\* replacer has reached the loop over the images of a document with one
\* image entry
InitImage ==
    /\ MapperIdle
    /\ CanonIdle
    /\ ExtractIdle
    /\ opts \in [pruneUnusedReplacements : BOOLEAN, pruneOCPBuilderReplacements : BOOLEAN,
                 ensureCorrectPromotionDockerfile : {FALSE}, createPR : {FALSE}]
    /\ promotionMapping = EmptyMap
    /\ \E from \in {EmptyStr, Base}, inputs \in ImageInputChoices, b \in ImageBaseChoices,
          df \in BoundedSeq(ImageLines, MaxLines) :
          LET doc == Doc(<<Image(from, EmptyStr, <<>>, inputs)>>, b)
          IN  /\ disk = <<Marshal(doc)>>
              /\ files = <<(DefaultDockerfile :> Found(df))>>
              /\ unit = <<[IdleUnit EXCEPT !.pc = "image", !.idx = 1,
                                           !.config = Unmarshal(Marshal(doc)),
                                           !.originalConfig = Marshal(doc)]>>
    /\ errs = <<>>
    /\ errLock = 0
    /\ wg = 0
    /\ mainPc = "off"
    /\ spawned = 0
    /\ run = 1
    /\ writes = << <<>> >>
    /\ prevRun = <<"none">>
    /\ prs = 0

\* the iteration, then the rest of replacer
NextImage ==
    \/ \E u \in Units : UnitImage(u)
    \/ \E u \in Units : UnitPrune(u)
    \/ \E u \in Units : UnitWrite(u)

SpecImage == InitImage /\ [][NextImage]_vars

-----------------------------------------------------------------------------
(* Claims about the simulation, the synthesis and the base images *)

ImageBefore(u) == Unmarshal(unit[u].originalConfig).Images[1]

ImageAfter(u) == unit[u].config.Images[1]

BaseBefore(u) == Unmarshal(unit[u].originalConfig).BaseImages

BaseAfter(u) == unit[u].config.BaseImages

Fetched(u) == files[u][DefaultDockerfile].body

\* the iteration on the image entry has just ended without an error
Stepped(u) == unit[u].pc = "prune"

\* replacer is past the loop over the images
PastLoop(u) == unit[u].idx = 2

AllAs(image) == UNION {SeqToSet(image.Inputs[k].As) : k \in DOMAIN image.Inputs}

\* the text the synthesis and the extraction read
Simulated(u) == applyReplacementsToDockerfile(Fetched(u), ImageBefore(u)).out

\* the tokens the synthesis finds in a text
FoundTokens(text) ==
    {RegistryFind(text[i]) : i \in {j \in 1..Len(text) :
        LineContains(text[j], "FROM") /\ RegistryFind(text[j]) # EmptyStr}}

\* the found tokens that no As list held before
NewTokens(u) == FoundTokens(Simulated(u)) \ AllAs(ImageBefore(u))

FromIndexes(text) == {i \in 1..Len(text) : Lower(text[i][1][1]) = "from"}

LastFromIndex(text) == CHOOSE i \in FromIndexes(text) : \A j \in FromIndexes(text) : j <= i

\* a string occurs in a line as a word or at the end of a word
Mentions(line, str) ==
    \E w \in 1..Len(line) : \E i \in 1..Len(line[w]) : SubSeq(line[w], i, Len(line[w])) = str

\* C11 (as stated): with a From, the base image of the last stage is not
\* synthesized and is no candidate unless an earlier stage has it as its base
\* image, the base images of the earlier stages are; without a From the
\* fetched text is what the synthesis and the extraction read.
C11_Original ==
    \A u \in Units :
        (Stepped(u) /\ ImageBefore(u).From # EmptyStr /\ FromIndexes(Fetched(u)) # {}) =>
            LET text == Fetched(u)
                last == LastFromIndex(text)
                b == text[last][2]
            IN  (\A j \in FromIndexes(text) : j < last => text[j][2] # b) =>
                    /\ b \notin unit[u].allReplacementCandidates
                    /\ b \notin AllAs(ImageAfter(u)) \ AllAs(ImageBefore(u))

\* C11: with a From, the base image of the last stage is replaced by From
\* before the synthesis and the extraction read the text: it is not
\* synthesized and is no candidate unless another line of the Dockerfile
\* mentions it, while From and the base images of the earlier stages are
\* candidates, and those of the internal registry are in an As list; without
\* a From, the synthesis and the extraction read the fetched text.
C11_SimulationFirst ==
    \A u \in Units :
        Stepped(u) =>
            LET text == Fetched(u)
                froms == FromIndexes(text)
            IN  IF ImageBefore(u).From = EmptyStr
                THEN /\ unit[u].allReplacementCandidates =
                            extractReplacementCandidatesFromDockerfile(text).set
                     /\ ImageAfter(u) = ensureReplacement(ImageBefore(u), text).image
                ELSE froms # {} =>
                     /\ (\A j \in 1..Len(text) :
                            j # LastFromIndex(text) => ~Mentions(text[j], text[LastFromIndex(text)][2]))
                        => /\ text[LastFromIndex(text)][2] \notin unit[u].allReplacementCandidates
                           /\ text[LastFromIndex(text)][2] \notin
                                  AllAs(ImageAfter(u)) \ AllAs(ImageBefore(u))
                     /\ ImageBefore(u).From \in unit[u].allReplacementCandidates
                     /\ \A j \in froms :
                           j < LastFromIndex(text) =>
                               /\ text[j][2] \in unit[u].allReplacementCandidates
                               /\ MatchStarts(text[j][2]) # {} =>
                                      text[j][2] \in AllAs(ImageAfter(u))

\* an image entry with a From went through the iteration on a Dockerfile of
\* two stages whose bases are in the internal registry: only the first one
\* was synthesized
C11_Witness ==
    \E u \in Units :
        /\ Stepped(u)
        /\ ImageBefore(u).From # EmptyStr
        /\ Cardinality(FromIndexes(Fetched(u))) >= 2
        /\ Fetched(u)[LastFromIndex(Fetched(u))][2] = TokReg
        /\ TokReg \notin AllAs(ImageAfter(u))
        /\ TokOther \in AllAs(ImageAfter(u)) \ AllAs(ImageBefore(u))

\* the canonical identifiers of a set of tokens
KeysOf(tokens) == {IdOf(t) : t \in tokens}

\* C12: a found token that an As list of the image entry already holds,
\* under whatever key, is added to no As list, and synthesis leaves the Input
\* Record and the Base-Image Table entry under its identifier as they were
\* unless a new token has the same identifier; a document in which every
\* found token is already present is left unchanged and is not written.
C12_PresentTokenSkipped ==
    /\ \A u \in Units :
        Stepped(u) =>
            /\ \A t \in FoundTokens(Simulated(u)) \cap AllAs(ImageBefore(u)) :
                  /\ \A k \in DOMAIN ImageAfter(u).Inputs :
                        t \in SeqToSet(ImageAfter(u).Inputs[k].As) =>
                            /\ k \in DOMAIN ImageBefore(u).Inputs
                            /\ t \in SeqToSet(ImageBefore(u).Inputs[k].As)
                  /\ IdOf(t) \notin KeysOf(NewTokens(u)) =>
                        /\ IdOf(t) \in DOMAIN ImageAfter(u).Inputs <=>
                               IdOf(t) \in DOMAIN ImageBefore(u).Inputs
                        /\ IdOf(t) \in DOMAIN ImageBefore(u).Inputs =>
                               ImageAfter(u).Inputs[IdOf(t)] = ImageBefore(u).Inputs[IdOf(t)]
                        /\ IdOf(t) \in DOMAIN BaseAfter(u) <=> IdOf(t) \in DOMAIN BaseBefore(u)
                        /\ IdOf(t) \in DOMAIN BaseBefore(u) =>
                               BaseAfter(u)[IdOf(t)] = BaseBefore(u)[IdOf(t)]
            /\ FoundTokens(Simulated(u)) \subseteq AllAs(ImageBefore(u)) =>
                  unit[u].config = Unmarshal(unit[u].originalConfig)
    /\ \A u \in Units :
          (PastLoop(u) /\ opts = NoOpts
              /\ FoundTokens(Simulated(u)) \subseteq AllAs(ImageBefore(u))) =>
                  /\ writes[u] = <<>>
                  /\ unit[u].pc # "write"

\* replacer has returned without a write on a Dockerfile whose token was
\* already in an As list under another key than its identifier
C12_Witness ==
    \E u \in Units :
        /\ PastLoop(u)
        /\ opts = NoOpts
        /\ unit[u].pc = "return"
        /\ writes[u] = <<>>
        /\ FoundTokens(Simulated(u)) # {}
        /\ \A t \in FoundTokens(Simulated(u)) :
              \E k \in DOMAIN ImageBefore(u).Inputs :
                  k # IdOf(t) /\ t \in SeqToSet(ImageBefore(u).Inputs[k].As)

\* the new tokens whose canonical identifier is a key
NewAt(u, k) == {t \in NewTokens(u) : IdOf(t) = k}

AsBefore(u, k) ==
    IF k \in DOMAIN ImageBefore(u).Inputs THEN ImageBefore(u).Inputs[k] ELSE NoInputRecord

\* a list of strings in strictly ascending order
Ascending(as) == \A i \in 1..Len(as) : \A j \in 1..Len(as) : i < j => StrLess(as[i], as[j])

\* C13: after synthesis the Input Mapping has the records it had and one under
\* the identifier of every new token (a token of the internal registry on a
\* line with FROM that no As list held); a record that got no token is as it
\* was, one that got tokens has as As list the old members and those tokens,
\* in ascending order without duplicates, and its Paths as before.
C13_SynthesisAddsNewTokens ==
    \A u \in Units :
        Stepped(u) =>
            /\ DOMAIN ImageAfter(u).Inputs =
                   DOMAIN ImageBefore(u).Inputs \cup KeysOf(NewTokens(u))
            /\ \A k \in DOMAIN ImageAfter(u).Inputs :
                  IF NewAt(u, k) = {}
                  THEN ImageAfter(u).Inputs[k] = AsBefore(u, k)
                  ELSE /\ SeqToSet(ImageAfter(u).Inputs[k].As) =
                              SeqToSet(AsBefore(u, k).As) \cup NewAt(u, k)
                       /\ Ascending(ImageAfter(u).Inputs[k].As)
                       /\ ImageAfter(u).Inputs[k].Paths = AsBefore(u, k).Paths

\* synthesis has added a token to a record whose As list was not in order,
\* and the list is in order now
C13_Witness ==
    \E u \in Units :
        /\ Stepped(u)
        /\ \E k \in DOMAIN ImageBefore(u).Inputs :
              /\ NewAt(u, k) # {}
              /\ ~Ascending(ImageBefore(u).Inputs[k].As)
              /\ Ascending(ImageAfter(u).Inputs[k].As)
              /\ Len(ImageAfter(u).Inputs[k].As) = Len(ImageBefore(u).Inputs[k].As) + 1

\* the triple of a token as a Base-Image Table entry
TripleOf(token) ==
    [Namespace |-> orgRepoTagFromPullString(token).org,
     Name |-> orgRepoTagFromPullString(token).repo,
     Tag |-> orgRepoTagFromPullString(token).tag]

\* C14: after synthesis the Base-Image Table has the entries it had, each as
\* it was, and under the identifier of every new token that had no entry the
\* parsed triple of the token; in no state of a run, and in no document
\* written, is an entry that the document had removed or changed.
C14_BaseImagesKept ==
    /\ \A u \in Units :
          Stepped(u) =>
              /\ DOMAIN BaseAfter(u) = DOMAIN BaseBefore(u) \cup KeysOf(NewTokens(u))
              /\ \A t \in NewTokens(u) :
                    IdOf(t) \notin DOMAIN BaseBefore(u) => BaseAfter(u)[IdOf(t)] = TripleOf(t)
    /\ \A u \in Units : \A k \in DOMAIN BaseBefore(u) :
          /\ k \in DOMAIN BaseAfter(u)
          /\ BaseAfter(u)[k] = BaseBefore(u)[k]
          /\ \A w \in 1..Len(writes[u]) :
                /\ k \in DOMAIN Unmarshal(writes[u][w]).BaseImages
                /\ Unmarshal(writes[u][w]).BaseImages[k] = BaseBefore(u)[k]

\* a document was written in which the entry under the identifier of a new
\* token is the one the document had, which is not the triple of the token
C14_Witness ==
    \E u \in Units :
        /\ PastLoop(u)
        /\ Len(writes[u]) = 1
        /\ \E t \in NewTokens(u) :
              /\ IdOf(t) \in DOMAIN BaseBefore(u)
              /\ BaseBefore(u)[IdOf(t)] # TripleOf(t)
              /\ Unmarshal(writes[u][1]).BaseImages[IdOf(t)] = BaseBefore(u)[IdOf(t)]

-----------------------------------------------------------------------------
(* replacer from the end of the loop over the images on: the pruning *)

TokBuilderLatest == <<"ocp", "/", "builder">>

PruneInputChoices ==
    { EmptyMap,
      As(Root, <<ImgY, ImgX>>, <<>>),
      As(Root, <<ImgX>>, <<"p">>),
      As(Root, <<TokBld>>, <<>>),
      As(Root, <<TokBld, ImgX>>, <<>>),
      As(Root, <<TokBad, ImgX, TokBad>>, <<>>),
      As(Root, <<ImgX>>, <<>>) @@ As(Base, <<TokBuilderLatest, ImgY>>, <<"p">>) }

PruneImageChoices ==
    {Image(ft[1], ft[2], <<>>, inputs) :
        ft \in {<<EmptyStr, EmptyStr>>, <<Base, EmptyStr>>, <<EmptyStr, Tgt>>},
        inputs \in PruneInputChoices}

PruneBaseChoices ==
    { EmptyMap,
      (Root :> [Namespace |-> Str("ocp"), Name |-> Str("builder"), Tag |-> Str("go")]),
      (Root :> [Namespace |-> Str("ocp"), Name |-> Str("builder"), Tag |-> Str("latest")]) }

\* replacer has left the loop over the images, which did not change the
\* document; candidates can only come from a Dockerfile that is not empty
InitPrune ==
    /\ MapperIdle
    /\ CanonIdle
    /\ ExtractIdle
    /\ opts \in [pruneUnusedReplacements : BOOLEAN, pruneOCPBuilderReplacements : BOOLEAN,
                 ensureCorrectPromotionDockerfile : {FALSE}, createPR : {FALSE}]
    /\ promotionMapping = EmptyMap
    /\ files = <<(DefaultDockerfile :> NotFound)>>
    /\ \E images \in BoundedSeq(PruneImageChoices, MaxImages), b \in PruneBaseChoices,
          cands \in {{}, {ImgX}, {ImgX, ImgY}}, nonEmpty \in BOOLEAN :
          LET doc == Doc(images, b)
          IN  /\ nonEmpty \/ cands = {}
              /\ disk = <<Marshal(doc)>>
              /\ unit = <<[IdleUnit EXCEPT !.pc = "prune",
                                           !.idx = Len(images) + 1,
                                           !.config = Unmarshal(Marshal(doc)),
                                           !.originalConfig = Marshal(doc),
                                           !.allReplacementCandidates = cands,
                                           !.hasNonEmptyDockerfile = nonEmpty]>>
    /\ errs = <<>>
    /\ errLock = 0
    /\ wg = 0
    /\ mainPc = "off"
    /\ spawned = 0
    /\ run = 1
    /\ writes = << <<>> >>
    /\ prevRun = <<"none">>
    /\ prs = 0

NextPrune ==
    \/ \E u \in Units : UnitPrune(u)
    \/ \E u \in Units : UnitWrite(u)

SpecPrune == InitPrune /\ [][NextPrune]_vars

-----------------------------------------------------------------------------
(* Claims about the pruning *)

\* the document as replacer handed it to the pruning
Before(u) == Unmarshal(unit[u].originalConfig)

\* replacer is past the pruning
Pruned(u) == unit[u].pc \in {"write", "return"}

\* the one pruning policy that was applied, "none" if none or both were
Policy(u) ==
    IF opts.pruneUnusedReplacements /\ unit[u].hasNonEmptyDockerfile
          /\ ~opts.pruneOCPBuilderReplacements
    THEN "unused"
    ELSE IF opts.pruneOCPBuilderReplacements /\ ~opts.pruneUnusedReplacements
    THEN "ocpBuilder"
    ELSE "none"

IsBuilder(a) ==
    /\ ~orgRepoTagFromPullString(a).err.failed
    /\ orgRepoTagFromPullString(a).org = Str("ocp")
    /\ orgRepoTagFromPullString(a).repo = Str("builder")

\* what the filter of the policy says of the As entry a of the input k
FilterFails(u, a, k) ==
    Policy(u) = "ocpBuilder" /\ orgRepoTagFromPullString(a).err.failed

FilterKeeps(u, a, k) ==
    IF Policy(u) = "unused" THEN a \in unit[u].allReplacementCandidates
    ELSE /\ ~orgRepoTagFromPullString(a).err.failed
         /\ IsBuilder(a) => /\ k \in DOMAIN Before(u).BaseImages
                             /\ Before(u).BaseImages[k] = TripleOf(a)

\* the As entries of the input k of the i-th image entry that the filter keeps
KeptOf(u, i, k) ==
    LET Test(a) == FilterKeeps(u, a, k)
    IN  SelectSeq(Before(u).Images[i].Inputs[k].As, Test)

\* the inputs of the i-th image entry that stay: those with a kept As entry
\* or a path
StayingKeys(u, i) ==
    {k \in DOMAIN Before(u).Images[i].Inputs :
        KeptOf(u, i, k) # <<>> \/ Before(u).Images[i].Inputs[k].Paths # <<>>}

\* the image entries that stay, in order
StayingImages(u) ==
    LET Test(i) ==
            \/ StayingKeys(u, i) # {}
            \/ Before(u).Images[i].From # EmptyStr
            \/ Before(u).Images[i].To # EmptyStr
    IN  SelectSeq([i \in 1..Len(Before(u).Images) |-> i], Test)

\* the image entry after the pruning that came from the i-th one, by its
\* Dockerfile path
After(u, i) ==
    {j \in 1..Len(unit[u].config.Images) :
        unit[u].config.Images[j].DockerfilePath = Before(u).Images[i].DockerfilePath}

\* C15: after the pruning under one policy, each input of each image entry
\* that is still there has as As the entries the filter keeps, in their
\* order, and its Paths as before; an input is gone if and only if no As
\* entry is kept and it has no Paths.
C15_KeepsWhatFilterKeeps ==
    \A u \in Units :
        (Pruned(u) /\ Policy(u) # "none") =>
            \A i \in 1..Len(Before(u).Images) : \A j \in After(u, i) :
                /\ DOMAIN unit[u].config.Images[j].Inputs = StayingKeys(u, i)
                /\ \A k \in StayingKeys(u, i) :
                      /\ unit[u].config.Images[j].Inputs[k].As = KeptOf(u, i, k)
                      /\ unit[u].config.Images[j].Inputs[k].Paths =
                             Before(u).Images[i].Inputs[k].Paths

\* an input with Paths has lost all its As entries and is still there, and
\* an input of two entries has kept the second one only
C15_Witness ==
    \E u \in Units :
        /\ Pruned(u)
        /\ Policy(u) = "unused"
        /\ \E i \in 1..Len(Before(u).Images) : \E j \in After(u, i) : \E k \in StayingKeys(u, i) :
              /\ Before(u).Images[i].Inputs[k].As # <<>>
              /\ unit[u].config.Images[j].Inputs[k].As = <<>>
        /\ \E i \in 1..Len(Before(u).Images) : \E j \in After(u, i) : \E k \in StayingKeys(u, i) :
              /\ Len(Before(u).Images[i].Inputs[k].As) = 2
              /\ unit[u].config.Images[j].Inputs[k].As =
                     <<Before(u).Images[i].Inputs[k].As[2]>>

\* C16: after the pruning under one policy the image entries are, in order,
\* those that have an input left, a From or a To, each with its From, To and
\* paths as before; an image entry is gone if and only if it has no input
\* left, no From and no To.
C16_CascadingDelete ==
    \A u \in Units :
        (Pruned(u) /\ Policy(u) # "none") =>
            /\ Len(unit[u].config.Images) = Len(StayingImages(u))
            /\ \A j \in 1..Len(StayingImages(u)) :
                  unit[u].config.Images[j] =
                      [Before(u).Images[StayingImages(u)[j]] EXCEPT
                          !.Inputs = unit[u].config.Images[j].Inputs]

\* of two image entries that lost all their inputs, the first one, without
\* From and To, is gone and the second one, with a From, is still there
C16_Witness ==
    \E u \in Units :
        /\ Pruned(u)
        /\ Policy(u) # "none"
        /\ Len(Before(u).Images) = 2
        /\ DOMAIN Before(u).Images[1].Inputs # {}
        /\ DOMAIN Before(u).Images[2].Inputs # {}
        /\ Before(u).Images[2].From # EmptyStr
        /\ StayingImages(u) = <<2>>
        /\ Len(unit[u].config.Images) = 1
        /\ unit[u].config.Images[1].Inputs = EmptyMap

\* the filter calls that fail: <<image entry, input key, As index>>
FailingCalls(u) ==
    UNION {UNION {{<<i, k, j>> : j \in {h \in 1..Len(Before(u).Images[i].Inputs[k].As) :
                                        FilterFails(u, Before(u).Images[i].Inputs[k].As[h], k)}} :
                     k \in DOMAIN Before(u).Images[i].Inputs} : i \in 1..Len(Before(u).Images)}

PruneErrors == {"pruneUnused", "pruneOCPBuilder"}

\* C17: the pruning returns an error if and only if a filter call failed;
\* the error then holds one error for each As entry whose filter call failed,
\* and the filter was still applied to the As entries of every input of every
\* image entry: what the document holds after it is what the filter keeps.
C17_ErrorsAggregated ==
    \A u \in Units :
        (Pruned(u) /\ Policy(u) # "none") =>
            /\ unit[u].errAggregate = FailingCalls(u)
            /\ unit[u].err \in PruneErrors <=> FailingCalls(u) # {}
            /\ FailingCalls(u) # {} =>
                  /\ unit[u].pc = "return"
                  /\ [j \in 1..Len(unit[u].config.Images) |->
                         unit[u].config.Images[j].DockerfilePath]
                       = [j \in 1..Len(StayingImages(u)) |->
                             Before(u).Images[StayingImages(u)[j]].DockerfilePath]
                  /\ \A j \in 1..Len(StayingImages(u)) :
                        unit[u].config.Images[j].Inputs =
                            [k \in StayingKeys(u, StayingImages(u)[j]) |->
                                [As |-> KeptOf(u, StayingImages(u)[j], k),
                                 Paths |-> Before(u).Images[StayingImages(u)[j]].Inputs[k].Paths]]

\* the pruning has returned an error for two As entries of one input and one
\* for an entry of another image entry, and has filtered the other entries
C17_Witness ==
    \E u \in Units :
        /\ Pruned(u)
        /\ Policy(u) = "ocpBuilder"
        /\ unit[u].err = "pruneOCPBuilder"
        /\ Cardinality(unit[u].errAggregate) >= 3
        /\ Cardinality({e[1] : e \in unit[u].errAggregate}) = 2
        /\ \E j \in 1..Len(unit[u].config.Images) :
              unit[u].config.Images[j].Inputs = As(Root, <<ImgX>>, <<>>)

\* the builder entries of the document whose input key has no base image
Unverified(u) ==
    {e \in UNION {UNION {{<<i, k, Before(u).Images[i].Inputs[k].As[j]>> :
                              j \in 1..Len(Before(u).Images[i].Inputs[k].As)} :
                           k \in DOMAIN Before(u).Images[i].Inputs} :
                    i \in 1..Len(Before(u).Images)} :
        IsBuilder(e[3]) /\ e[2] \notin DOMAIN Before(u).BaseImages}

\* the builder entries whose input key has a base image other than their own
\* triple
Mismatched(u) ==
    {e \in UNION {UNION {{<<i, k, Before(u).Images[i].Inputs[k].As[j]>> :
                              j \in 1..Len(Before(u).Images[i].Inputs[k].As)} :
                           k \in DOMAIN Before(u).Images[i].Inputs} :
                    i \in 1..Len(Before(u).Images)} :
        /\ IsBuilder(e[3])
        /\ e[2] \in DOMAIN Before(u).BaseImages
        /\ Before(u).BaseImages[e[2]] # TripleOf(e[3])}

\* the entry e = <<image entry, input key, As entry>> is still in the document
StillThere(u, e) ==
    \E j \in After(u, e[1]) :
        /\ e[2] \in DOMAIN unit[u].config.Images[j].Inputs
        /\ e[3] \in SeqToSet(unit[u].config.Images[j].Inputs[e[2]].As)

\* C19 (as stated): under the builder policy an As entry that parses to
\* ocp/builder is kept when the Base-Image Table has no entry under the key
\* of its input.
C19_Original ==
    \A u \in Units :
        (Pruned(u) /\ Policy(u) = "ocpBuilder") =>
            \A e \in Unverified(u) : StillThere(u, e)

\* C19: under the builder policy an As entry that parses to ocp/builder is
\* removed when the Base-Image Table has no entry under the key of its input.
C19_UnverifiedBuilderRemoved ==
    \A u \in Units :
        (Pruned(u) /\ Policy(u) = "ocpBuilder") =>
            \A e \in Unverified(u) : ~StillThere(u, e)

\* the builder policy has removed a builder entry whose input key has no
\* base image from an image entry that is still in the document
C19_Witness ==
    \E u \in Units :
        /\ Pruned(u)
        /\ Policy(u) = "ocpBuilder"
        /\ \E e \in Unverified(u) :
              /\ After(u, e[1]) # {}
              /\ ~StillThere(u, e)

\* C20: the builder policy removes every As entry that parses to ocp/builder
\* and whose input key has no base image or another one than the triple of
\* the entry; an input that is left without As entries and has no Paths is
\* removed, and so is an image entry that is left without inputs and has no
\* From and no To; replacer then goes on to write the document, which
\* differs from the one it read.
C20_BuilderRemovedAndWritten ==
    \A u \in Units :
        (Pruned(u) /\ Policy(u) = "ocpBuilder") =>
            /\ \A e \in Unverified(u) \cup Mismatched(u) : ~StillThere(u, e)
            /\ \A i \in 1..Len(Before(u).Images) : \A j \in After(u, i) :
                  /\ \A k \in DOMAIN unit[u].config.Images[j].Inputs :
                        \/ unit[u].config.Images[j].Inputs[k].As # <<>>
                        \/ unit[u].config.Images[j].Inputs[k].Paths # <<>>
                  /\ \/ DOMAIN unit[u].config.Images[j].Inputs # {}
                     \/ unit[u].config.Images[j].From # EmptyStr
                     \/ unit[u].config.Images[j].To # EmptyStr
            /\ (Unverified(u) \cup Mismatched(u) # {} /\ FailingCalls(u) = {}) =>
                  /\ Marshal(unit[u].config) # unit[u].originalConfig
                  /\ \/ unit[u].pc = "write"
                     \/ writes[u] = <<Marshal(unit[u].config)>>

\* replacer has written a document without image entries: its one image
\* entry had nothing but a builder entry whose input key has another base
\* image
C20_Witness ==
    \E u \in Units :
        /\ Pruned(u)
        /\ Policy(u) = "ocpBuilder"
        /\ Len(Before(u).Images) = 1
        /\ Mismatched(u) # {}
        /\ unit[u].config.Images = <<>>
        /\ writes[u] = <<Marshal(unit[u].config)>>

\* replacer has gone through the whole loop and the pruning without having
\* fetched a Dockerfile that is not empty
PrunedOnEmpty(u) ==
    /\ unit[u].pc \in {"write", "return"}
    /\ unit[u].idx = Len(Before(u).Images) + 1
    /\ ~unit[u].hasNonEmptyDockerfile

\* what the pruning can change of the image entries
Replacements(images) ==
    [i \in 1..Len(images) |->
        [From |-> images[i].From, To |-> images[i].To, Inputs |-> images[i].Inputs]]

\* C18: with prune-unused enabled and every fetched Dockerfile empty, the
\* unused-replacement policy removes nothing: without the builder policy the
\* image entries, their inputs and their As entries are those of the
\* document read, and with it every As entry that the builder policy does not
\* concern is still in an image entry with the same From and To.
C18_NoPruningOnEmptyDockerfiles ==
    \A u \in Units :
        (opts.pruneUnusedReplacements /\ PrunedOnEmpty(u)) =>
            /\ ~opts.pruneOCPBuilderReplacements =>
                  Replacements(unit[u].config.Images) = Replacements(Before(u).Images)
            /\ \A i \in 1..Len(Before(u).Images) : \A k \in DOMAIN Before(u).Images[i].Inputs :
                  \A a \in SeqToSet(Before(u).Images[i].Inputs[k].As) :
                      (~orgRepoTagFromPullString(a).err.failed /\ ~IsBuilder(a)) =>
                          \E j \in 1..Len(unit[u].config.Images) :
                              /\ unit[u].config.Images[j].From = Before(u).Images[i].From
                              /\ unit[u].config.Images[j].To = Before(u).Images[i].To
                              /\ k \in DOMAIN unit[u].config.Images[j].Inputs
                              /\ a \in SeqToSet(unit[u].config.Images[j].Inputs[k].As)

\* replacer has returned with prune-unused enabled from a document whose
\* image entry has a From and an As entry that is no candidate: its
\* Dockerfile was empty, and the As entry is still there
C18_Witness ==
    \E u \in Units :
        /\ opts.pruneUnusedReplacements
        /\ PrunedOnEmpty(u)
        /\ unit[u].pc = "return"
        /\ unit[u].err = NoErr
        /\ \E i \in 1..Len(unit[u].config.Images) :
              /\ unit[u].config.Images[i].From # EmptyStr
              /\ \E k \in DOMAIN unit[u].config.Images[i].Inputs :
                    \E a \in SeqToSet(unit[u].config.Images[i].Inputs[k].As) :
                        a \notin unit[u].allReplacementCandidates

\* the builder policy has nothing against the As entry a of the input k: it
\* parses and is no builder entry, or the base image under k is its triple
Allowed(u, a, k) ==
    /\ ~orgRepoTagFromPullString(a).err.failed
    /\ \/ ~IsBuilder(a)
       \/ /\ k \in DOMAIN Before(u).BaseImages
          /\ Before(u).BaseImages[k] = TripleOf(a)

\* the inputs of the i-th image entry that have As entries, all allowed
AllowedKeys(u, i) ==
    {k \in DOMAIN Before(u).Images[i].Inputs :
        /\ Before(u).Images[i].Inputs[k].As # <<>>
        /\ \A a \in SeqToSet(Before(u).Images[i].Inputs[k].As) : Allowed(u, a, k)}

\* C21: under the builder policy an As entry that is no builder entry, and a
\* builder entry whose input key has the triple of the entry as base image,
\* stay; an input whose As entries are all of these kinds is left as it was,
\* so is an image entry whose inputs are, and the Base-Image Table is left
\* as it was in any case.
C21_AllowedEntriesKept ==
    \A u \in Units :
        (Pruned(u) /\ Policy(u) = "ocpBuilder") =>
            /\ unit[u].config.BaseImages = Before(u).BaseImages
            /\ \A i \in 1..Len(Before(u).Images) :
                  /\ \A k \in DOMAIN Before(u).Images[i].Inputs :
                        \A a \in SeqToSet(Before(u).Images[i].Inputs[k].As) :
                            Allowed(u, a, k) => StillThere(u, <<i, k, a>>)
                  /\ \A k \in AllowedKeys(u, i) : \E j \in After(u, i) :
                        /\ k \in DOMAIN unit[u].config.Images[j].Inputs
                        /\ unit[u].config.Images[j].Inputs[k] = Before(u).Images[i].Inputs[k]
                  /\ (AllowedKeys(u, i) # {}
                        /\ AllowedKeys(u, i) = DOMAIN Before(u).Images[i].Inputs) =>
                        \E j \in After(u, i) : unit[u].config.Images[j] = Before(u).Images[i]

\* replacer has returned without a write under the builder policy: the one
\* image entry holds a builder entry, and the base image under its input key
\* is the triple of the entry
C21_Witness ==
    \E u \in Units :
        /\ Pruned(u)
        /\ Policy(u) = "ocpBuilder"
        /\ unit[u].pc = "return"
        /\ unit[u].err = NoErr
        /\ writes[u] = <<>>
        /\ Len(Before(u).Images) = 1
        /\ \E k \in AllowedKeys(u, 1) :
              \E a \in SeqToSet(Before(u).Images[1].Inputs[k].As) : IsBuilder(a)
        /\ unit[u].config.Images = Before(u).Images

-----------------------------------------------------------------------------
(* replacer on documents of several branches and promotions *)

Dir == <<"dir">>

Release == Str("release")

ReconcileImageChoices ==
    {[Image(EmptyStr, to, cp[2], inputs) EXCEPT !.ContextDir = cp[1]] :
        to \in {EmptyStr, Tgt},
        cp \in {<<EmptyStr, <<>>>>, <<Dir, <<>>>>, <<EmptyStr, DockerfileRhel>>},
        inputs \in {EmptyMap, As(Root, <<ImgX>>, <<>>)}}

ReconcilePromotions ==
    {NoPromotion,
     [set |-> TRUE, Namespace |-> Str("ocp"), Name |-> MajorMinor],
     [set |-> TRUE, Namespace |-> Str("ocp"), Name |-> Str("4.7")],
     [set |-> TRUE, Namespace |-> Str("org"), Name |-> MajorMinor]}

ReconcileDocs ==
    {[Images |-> images, BaseImages |-> EmptyMap, Promotion |-> p, Branch |-> b] :
        images \in BoundedSeq(ReconcileImageChoices, MaxImages) \ {<<>>},
        p \in ReconcilePromotions,
        b \in {Str("master"), Release, EmptyStr}}

PromotionTarget == <<Registry, "/", "ocp", "/">> \o MajorMinor \o Str(":") \o Tgt

ReconcileMappings ==
    {EmptyMap,
     PromotionTarget :> DockerfileRhel,
     PromotionTarget :> DefaultDockerfile,
     PromotionTarget :> (Dir \o DefaultDockerfile)}

\* the files of the repository: one Dockerfile per path, each with its own
\* base image
ReconcileFiles ==
    (DefaultDockerfile :> Found(DfX)) @@ (DockerfileRhel :> Found(DfReg))
        @@ ((Dir \o DefaultDockerfile) :> Found(DfY))

InitReconcile ==
    /\ MapperIdle
    /\ CanonIdle
    /\ ExtractIdle
    /\ opts \in [pruneUnusedReplacements : BOOLEAN, pruneOCPBuilderReplacements : {FALSE},
                 ensureCorrectPromotionDockerfile : BOOLEAN, createPR : {FALSE}]
    /\ promotionMapping \in ReconcileMappings
    /\ files = <<ReconcileFiles>>
    /\ \E doc \in ReconcileDocs :
          /\ disk = <<Marshal(doc)>>
          /\ unit = <<[IdleUnit EXCEPT !.pc = "start", !.config = Unmarshal(Marshal(doc))]>>
    /\ errs = <<>>
    /\ errLock = 0
    /\ wg = 0
    /\ mainPc = "off"
    /\ spawned = 0
    /\ run = 1
    /\ writes = << <<>> >>
    /\ prevRun = <<"none">>
    /\ prs = 0

NextReconcile ==
    \/ \E u \in Units : UnitStart(u)
    \/ \E u \in Units : UnitImage(u)
    \/ \E u \in Units : UnitPrune(u)
    \/ \E u \in Units : UnitWrite(u)

SpecReconcile == InitReconcile /\ [][NextReconcile]_vars

-----------------------------------------------------------------------------
(* Claims about the promotion-Dockerfile reconciler *)

\* replacer has taken the serialization of the document and reconciled it,
\* and has not yet fetched a file
JustStarted(u) == unit[u].pc = "image" /\ unit[u].fetched = <<>>

Started(u) == unit[u].pc # "start"

PathsOf(images) ==
    [i \in 1..Len(images) |-> <<images[i].ContextDir, images[i].DockerfilePath>>]

\* the content the file getter returns for a path
FileBody(u, path) == FileGetter(files[u], path).body

\* C22: on a document whose branch is not master the reconciler changes
\* nothing, whatever the mapping and the release: ContextDir and
\* DockerfilePath of the image entries stay as they were read, and a run
\* that prunes nothing and finds no pull spec to synthesize does not write.
C22_OtherBranchUntouched ==
    \A u \in Units :
        (Started(u) /\ Before(u).Branch # Str("master")) =>
            /\ \A m \in ReconcileMappings : \A v \in {MajorMinor, Str("4.7")} :
                  updateDockerfilesToMatchOCPBuildData(Before(u), m, v) = Before(u)
            /\ JustStarted(u) => unit[u].config = Before(u)
            /\ ~opts.pruneUnusedReplacements =>
                  PathsOf(unit[u].config.Images) = PathsOf(Before(u).Images)
            /\ \A j \in 1..Len(unit[u].config.Images) :
                  \E i \in 1..Len(Before(u).Images) :
                      /\ unit[u].config.Images[j].ContextDir = Before(u).Images[i].ContextDir
                      /\ unit[u].config.Images[j].DockerfilePath =
                             Before(u).Images[i].DockerfilePath
                      /\ unit[u].config.Images[j].To = Before(u).Images[i].To
            /\ (/\ ~opts.pruneUnusedReplacements
                /\ ~opts.pruneOCPBuilderReplacements
                /\ \A i \in 1..Len(unit[u].fetched) :
                      FoundTokens(FileBody(u, unit[u].fetched[i])) = {}) =>
                  /\ unit[u].pc # "write"
                  /\ writes[u] = <<>>

\* a run with the reconciler enabled has returned without a write on a
\* document of another branch whose image entry promotes a mapped tag from
\* another path than the mapped one
C22_Witness ==
    \E u \in Units :
        /\ opts.ensureCorrectPromotionDockerfile
        /\ unit[u].pc = "return"
        /\ unit[u].err = NoErr
        /\ writes[u] = <<>>
        /\ Before(u).Branch = Release
        /\ Before(u).Promotion = [set |-> TRUE, Namespace |-> Str("ocp"), Name |-> MajorMinor]
        /\ Len(Before(u).Images) = 1
        /\ Before(u).Images[1].To = Tgt
        /\ PathsOf(Before(u).Images) = << <<EmptyStr, <<>>>> >>
        /\ promotionMapping = (PromotionTarget :> DockerfileRhel)
        /\ unit[u].fetched = <<DefaultDockerfile>>

\* the document promotes the To of an image entry into ocp/<release>
Promotes(config, image) ==
    /\ image.To # EmptyStr
    /\ config.Promotion.set
    /\ config.Promotion.Namespace = Str("ocp")
    /\ config.Promotion.Name = MajorMinor

TargetOf(image) == <<Registry, "/", "ocp", "/">> \o MajorMinor \o Str(":") \o image.To

ActualPath(image) ==
    image.ContextDir \o (IF image.DockerfilePath = <<>> THEN DefaultDockerfile
                          ELSE image.DockerfilePath)

\* the image entry is one the reconciler has to rewrite
Rewritten(config, image) ==
    /\ config.Branch = Str("master")
    /\ Promotes(config, image)
    /\ TargetOf(image) \in DOMAIN promotionMapping
    /\ promotionMapping[TargetOf(image)] # ActualPath(image)

\* C23: on a master document the reconciler sets ContextDir to empty and
\* DockerfilePath to the mapped path of every image entry whose To is
\* promoted into ocp/<release>, whose pull spec the mapping has, and whose
\* joined path is another one than the mapped path; every other image entry
\* is as it was, and there is no error.
C23_ReconcilerRewrites ==
    \A u \in Units :
        (JustStarted(u) /\ opts.ensureCorrectPromotionDockerfile
            /\ Before(u).Branch = Str("master")) =>
            /\ unit[u].err = NoErr
            /\ Len(unit[u].config.Images) = Len(Before(u).Images)
            /\ \A i \in 1..Len(Before(u).Images) :
                  unit[u].config.Images[i] =
                      IF Rewritten(Before(u), Before(u).Images[i])
                      THEN [Before(u).Images[i] EXCEPT
                               !.ContextDir = EmptyStr,
                               !.DockerfilePath = promotionMapping[TargetOf(Before(u).Images[i])]]
                      ELSE Before(u).Images[i]
            /\ [unit[u].config EXCEPT !.Images = Before(u).Images] = Before(u)

\* the reconciler has rewritten an image entry that had a ContextDir and has
\* left one alone whose path was the mapped one
C23_Witness ==
    \E u \in Units :
        /\ JustStarted(u)
        /\ opts.ensureCorrectPromotionDockerfile
        /\ Len(Before(u).Images) = 2
        /\ Before(u).Images[1].ContextDir = Dir
        /\ Rewritten(Before(u), Before(u).Images[1])
        /\ unit[u].config.Images[1].ContextDir = EmptyStr
        /\ unit[u].config.Images[1].DockerfilePath = DockerfileRhel
        /\ Promotes(Before(u), Before(u).Images[2])
        /\ ~Rewritten(Before(u), Before(u).Images[2])
        /\ unit[u].config.Images[2] = Before(u).Images[2]

\* the path replacer has to fetch for an image entry of the document read
AuthoritativePath(u, image) ==
    IF opts.ensureCorrectPromotionDockerfile /\ Rewritten(Before(u), image)
    THEN promotionMapping[TargetOf(image)]
    ELSE ActualPath(image)

\* replacer has left the loop over the images
LoopDone(u) == unit[u].idx = Len(Before(u).Images) + 1

\* C24: the file fetched for an image entry is the one at the path the
\* reconciler gave it, not the one at the path the document had; the
\* candidates are those of the files at these paths, the pull specs of these
\* files are synthesized, and the unused pruning keeps no As entry that is
\* no candidate of these files.
C24_ReconcileBeforeFetch ==
    \A u \in Units :
        Started(u) =>
            /\ \A i \in 1..Len(unit[u].fetched) :
                  unit[u].fetched[i] = AuthoritativePath(u, Before(u).Images[i])
            /\ (LoopDone(u) /\ unit[u].err \in {NoErr, "write"}) =>
                  /\ Len(unit[u].fetched) = Len(Before(u).Images)
                  /\ unit[u].allReplacementCandidates =
                         UNION {extractReplacementCandidatesFromDockerfile(
                                    FileBody(u, AuthoritativePath(u, Before(u).Images[i]))).set :
                                i \in 1..Len(Before(u).Images)}
                  /\ unit[u].pc = "prune" =>
                         \A i \in 1..Len(Before(u).Images) :
                             FoundTokens(FileBody(u, AuthoritativePath(u, Before(u).Images[i])))
                                 \subseteq AllAs(unit[u].config.Images[i])
                  /\ (Pruned(u) /\ opts.pruneUnusedReplacements) =>
                         \A j \in 1..Len(unit[u].config.Images) :
                             AllAs(unit[u].config.Images[j]) \subseteq
                                 unit[u].allReplacementCandidates

\* replacer has written a document whose image entry was rewritten: it has
\* fetched the file at the mapped path, synthesized its pull spec and pruned
\* the As entry that only the file at the old path uses
C24_Witness ==
    \E u \in Units :
        /\ opts.ensureCorrectPromotionDockerfile
        /\ opts.pruneUnusedReplacements
        /\ Len(writes[u]) = 1
        /\ Len(Before(u).Images) = 1
        /\ ActualPath(Before(u).Images[1]) = DefaultDockerfile
        /\ ImgX \in AllAs(Before(u).Images[1])
        /\ unit[u].fetched = <<DockerfileRhel>>
        /\ AllAs(unit[u].config.Images[1]) = {TokReg}

-----------------------------------------------------------------------------
(* replacer on every kind of answer of the file host *)

GetterAnswers ==
    {NotFound, Unreadable(StatusNotFound), Found(<<>>), Found(DfReg), Found(DfX),
     Unreadable(StatusOK), ServerError, Forbidden, TransportFailure}

\* the answers for the Dockerfile of the first image entry and of the second
\* one; the host may also have no file at the first path
GetterFiles ==
    {(DockerfileRhel :> second) : second \in {NotFound, Found(DfY)}}
    \cup {(DefaultDockerfile :> first) @@ (DockerfileRhel :> second) :
             first \in GetterAnswers, second \in {NotFound, Found(DfY)}}

InitGetter ==
    /\ MapperIdle
    /\ CanonIdle
    /\ ExtractIdle
    /\ opts \in [pruneUnusedReplacements : BOOLEAN, pruneOCPBuilderReplacements : BOOLEAN,
                 ensureCorrectPromotionDockerfile : {FALSE}, createPR : {FALSE}]
    /\ promotionMapping = EmptyMap
    /\ \E doc \in ReplacerDocs \ {Doc(<<>>, b) : b \in BaseImageChoices}, f \in GetterFiles :
          /\ disk = <<Marshal(doc)>>
          /\ files = <<f>>
          /\ unit = <<[IdleUnit EXCEPT !.pc = "start", !.config = Unmarshal(Marshal(doc))]>>
    /\ errs = <<>>
    /\ errLock = 0
    /\ wg = 0
    /\ mainPc = "off"
    /\ spawned = 0
    /\ run = 1
    /\ writes = << <<>> >>
    /\ prevRun = <<"none">>
    /\ prs = 0

NextGetter ==
    \/ \E u \in Units : UnitStart(u)
    \/ \E u \in Units : UnitImage(u)
    \/ \E u \in Units : UnitPrune(u)
    \/ \E u \in Units : UnitWrite(u)

SpecGetter == InitGetter /\ [][NextGetter]_vars

\* the host has no file at the path: it answers 404
Missing(u, path) == path \notin DOMAIN files[u] \/ files[u][path].code = StatusNotFound

\* the host has answered, with a status other than 404, and the answer is of
\* no use: the request failed, the body cannot be read, or the status is not
\* 200
NoSuccess(u, path) ==
    /\ path \in DOMAIN files[u]
    /\ files[u][path].code # StatusNotFound
    /\ \/ files[u][path].code = 0
       \/ files[u][path].unreadable
       \/ files[u][path].code # StatusOK

\* C25: a 404 of the file host is empty content and no error, every other
\* answer without success is an error that ends the run on the document; an
\* image entry whose Dockerfile is missing gets no input, and a document
\* whose Dockerfiles are all missing has no candidates, is not pruned of
\* unused replacements and does not fail.
C25_NotFoundIsEmpty ==
    \A u \in Units :
        Started(u) =>
            /\ \A i \in 1..Len(unit[u].fetched) :
                  /\ Missing(u, unit[u].fetched[i]) =>
                        /\ FileGetter(files[u], unit[u].fetched[i]) =
                               [failed |-> FALSE, body |-> <<>>]
                        /\ i < unit[u].idx
                        /\ unit[u].pc \in {"image", "prune"} =>
                               unit[u].config.Images[i].Inputs = Before(u).Images[i].Inputs
                  /\ NoSuccess(u, unit[u].fetched[i]) =>
                        /\ FileGetter(files[u], unit[u].fetched[i]).failed
                        /\ i = Len(unit[u].fetched)
                        /\ unit[u].idx = i
                        /\ unit[u].pc = "return"
                        /\ unit[u].err = "get"
                        /\ writes[u] = <<>>
            /\ unit[u].err = "get" =>
                  NoSuccess(u, unit[u].fetched[Len(unit[u].fetched)])
            /\ (LoopDone(u) /\ \A i \in 1..Len(unit[u].fetched) :
                                  Missing(u, unit[u].fetched[i])) =>
                  /\ unit[u].allReplacementCandidates = {}
                  /\ ~unit[u].hasNonEmptyDockerfile
                  /\ unit[u].err \in {NoErr, "write", "pruneOCPBuilder"}
                  /\ ~opts.pruneOCPBuilderReplacements =>
                        /\ unit[u].config = Before(u)
                        /\ unit[u].err = NoErr
                        /\ writes[u] = <<>>

\* replacer has returned without an error and without a write on a document
\* with a From whose Dockerfile the host answered with a 404 whose body
\* cannot be read
C25_Witness ==
    \E u \in Units :
        /\ unit[u].pc = "return"
        /\ unit[u].err = NoErr
        /\ writes[u] = <<>>
        /\ LoopDone(u)
        /\ opts.pruneUnusedReplacements
        /\ unit[u].fetched = <<DefaultDockerfile>>
        /\ DefaultDockerfile \in DOMAIN files[u]
        /\ files[u][DefaultDockerfile] = Unreadable(StatusNotFound)
        /\ Before(u).Images[1].From # EmptyStr
        /\ AllAs(Before(u).Images[1]) # {}
        /\ unit[u].config = Before(u)

-----------------------------------------------------------------------------
(* Claims about the documents written *)

\* an input without As entries and without Paths
EmptyRecord(record) == record.As = <<>> /\ record.Paths = <<>>

\* an image entry without inputs, From and To
EmptyImage(image) ==
    DOMAIN image.Inputs = {} /\ image.From = EmptyStr /\ image.To = EmptyStr

WellFormed(config) ==
    \A i \in 1..Len(config.Images) :
        /\ ~EmptyImage(config.Images[i])
        /\ \A k \in DOMAIN config.Images[i].Inputs : ~EmptyRecord(config.Images[i].Inputs[k])

\* C26 (as stated): whatever the flags, a document handed to the writer has
\* no input without As entries and Paths and no image entry without inputs,
\* From and To.
C26_Original ==
    \A u \in Units : \A w \in 1..Len(writes[u]) : WellFormed(Unmarshal(writes[u][w]))

\* the content the getter has for the Dockerfile of the image entry
FetchedFor(u, image) ==
    FileGetter(files[u], PathJoin(image.ContextDir,
                                  IF image.DockerfilePath # <<>> THEN image.DockerfilePath
                                  ELSE DefaultDockerfile)).body

\* the candidates of the simulated Dockerfile of the image entry
CandidatesFor(u, image) ==
    extractReplacementCandidatesFromDockerfile(
        applyReplacementsToDockerfile(FetchedFor(u, image), image).out).set

\* the candidates of the Dockerfiles of all image entries of the document
DocCandidates(u, config) ==
    UNION {CandidatesFor(u, config.Images[i]) : i \in 1..Len(config.Images)}

SomeNonEmpty(u, config) ==
    \E i \in 1..Len(config.Images) : Len(FetchedFor(u, config.Images[i])) > 0

\* the As entry a of the input k of the image entry is still in the
\* configuration, in an image entry with its From, To and Dockerfile
KeptIn(config, image, k, a) ==
    \E j \in 1..Len(config.Images) :
        /\ config.Images[j].From = image.From
        /\ config.Images[j].To = image.To
        /\ config.Images[j].ContextDir = image.ContextDir
        /\ config.Images[j].DockerfilePath = image.DockerfilePath
        /\ k \in DOMAIN config.Images[j].Inputs
        /\ a \in SeqToSet(config.Images[j].Inputs[k].As)

\* replacer goes from the end of the loop through the pruning
PruneTaken(u) == unit[u].pc = "prune" /\ unit'[u].pc # "prune"

UnionPruning(u) ==
    (/\ PruneTaken(u)
     /\ opts.pruneUnusedReplacements
     /\ SomeNonEmpty(u, unit[u].config)) =>
        /\ unit'[u].err = NoErr
        /\ \A i \in 1..Len(unit[u].config.Images) :
              \A k \in DOMAIN unit[u].config.Images[i].Inputs :
                  \A a \in SeqToSet(unit[u].config.Images[i].Inputs[k].As) :
                      /\ KeptIn(unit'[u].config, unit[u].config.Images[i], k, a)
                             => a \in DocCandidates(u, unit[u].config)
                      /\ (a \in DocCandidates(u, unit[u].config)
                             /\ ~opts.pruneOCPBuilderReplacements)
                             => KeptIn(unit'[u].config, unit[u].config.Images[i], k, a)

\* C28: with prune-unused enabled and at least one fetched Dockerfile not
\* empty, the pruning after the loop keeps an As entry of an image entry if
\* and only if it is a candidate of the simulated Dockerfile of some image
\* entry of the document, whether or not the entry's own Dockerfile was
\* empty (the builder policy, if enabled, may remove more).
C28_UnionOfCandidatesDecides ==
    [][\A u \in Units : UnionPruning(u)]_vars

\* the As entries of the image entry in the document read
AsOf(image) ==
    UNION {SeqToSet(image.Inputs[k].As) : k \in DOMAIN image.Inputs}

\* replacer has pruned a document of two image entries with the same As
\* entry; the Dockerfile of the second was empty and has no candidates, that
\* of the first names the As entry, and the second image entry still has it
C28_Witness ==
    \E u \in Units :
        /\ opts.pruneUnusedReplacements
        /\ unit[u].pc \in {"write", "return"}
        /\ unit[u].err = NoErr
        /\ unit[u].idx = 3
        /\ Len(unit[u].config.Images) = 2
        /\ FetchedFor(u, unit[u].config.Images[2]) = <<>>
        /\ FetchedFor(u, unit[u].config.Images[1]) # <<>>
        /\ AsOf(Before(u).Images[2]) # {}
        /\ AsOf(unit[u].config.Images[2]) = AsOf(Before(u).Images[2])
        /\ AsOf(unit[u].config.Images[2]) \subseteq CandidatesFor(u, unit[u].config.Images[1])

\* s is t with some of its elements left out
RECURSIVE IsSubSeq(_, _)
IsSubSeq(s, t) ==
    IF s = <<>> THEN TRUE
    ELSE IF t = <<>> THEN FALSE
    ELSE IF Head(s) = Head(t) THEN IsSubSeq(Tail(s), Tail(t))
    ELSE IsSubSeq(s, Tail(t))

\* the image entry after is the image entry before with inputs and As
\* entries left out and nothing else changed
Reduced(after, before) ==
    /\ after.From = before.From
    /\ after.To = before.To
    /\ after.ContextDir = before.ContextDir
    /\ after.DockerfilePath = before.DockerfilePath
    /\ DOMAIN after.Inputs \subseteq DOMAIN before.Inputs
    /\ \A k \in DOMAIN after.Inputs :
          /\ after.Inputs[k].Paths = before.Inputs[k].Paths
          /\ IsSubSeq(after.Inputs[k].As, before.Inputs[k].As)

\* the image entries after are some of those before, in their order, each
\* reduced
ImagesReduced(after, before) ==
    \E f \in [1..Len(after) -> 1..Len(before)] :
        /\ \A i, j \in 1..Len(after) : i < j => f[i] < f[j]
        /\ \A j \in 1..Len(after) : Reduced(after[j], before[f[j]])

\* the keys of the inputs of all image entries
InputKeys(config) ==
    UNION {DOMAIN config.Images[i].Inputs : i \in 1..Len(config.Images)}

\* C29: whatever the policies applied and whether or not a filter returned
\* an error, the pruning only removes: the image entries after it are image
\* entries of the document read, in their order, with the same From, To,
\* ContextDir and DockerfilePath, their inputs are inputs they had, with
\* the same Paths and As entries they had, in their order; the base images
\* are those of the document read, also those whose inputs are all gone.
C29_PruningOnlyRemoves ==
    \A u \in Units :
        Pruned(u) =>
            /\ ImagesReduced(unit[u].config.Images, Before(u).Images)
            /\ unit[u].config.BaseImages = Before(u).BaseImages
            /\ unit[u].config.Promotion = Before(u).Promotion
            /\ unit[u].config.Branch = Before(u).Branch

\* the pruning has removed every input of a key that has a base image, from
\* a document with two image entries of which one is left: the base image
\* is still there
C29_Witness ==
    \E u \in Units :
        /\ Pruned(u)
        /\ Len(Before(u).Images) = 2
        /\ Len(unit[u].config.Images) = 1
        /\ \E k \in DOMAIN unit[u].config.BaseImages :
              /\ k \in InputKeys(Before(u))
              /\ k \notin InputKeys(unit[u].config)

\* upsertPR is about to be called or has been called
UpsertStarted == mainPc = "upsertPR" \/ prs > 0

\* every document has been handed to a goroutine and every goroutine has
\* ended
AllUnitsFinished ==
    /\ spawned = Len(disk)
    /\ \A u \in Units : unit[u].pc = "done"

\* C30: upsertPR is called only with create-pr set, after every document
\* has got its unit and every unit has ended, none of them with an error
\* and with an empty error list; it is called at most once, and while a unit
\* has returned an error it is neither called nor has it been called.
C30_UpsertAfterAllUnits ==
    /\ UpsertStarted =>
          /\ opts.createPR
          /\ AllUnitsFinished
          /\ errs = <<>>
          /\ \A u \in Units : ~Failed(u)
    /\ (\E u \in Units : Failed(u)) => ~UpsertStarted
    /\ prs <= 1

\* upsertPR has been called after all units ended without an error, one of
\* them having written its document
C30_Witness ==
    /\ prs = 1
    /\ opts.createPR
    /\ AllUnitsFinished
    /\ \A u \in Units : ~Failed(u)
    /\ \E u \in Units : Len(writes[u]) = 1

(***************************************************************************)
(* The ImageStreamTag mapper (package imagestreamtagmapper): an event      *)
(* handler that turns ImageStream events into requests for the tags of     *)
(* the stream, passes each to the upstream function it was made with and   *)
(* adds what upstream returns to the work queue.                           *)
(***************************************************************************)

MaxTags == 2

TagNames == {"t1", "t2", "t3"}

\* the tag event lists a tag of a stream can have
TagItems == {<<>>, <<"a">>}

\* a NamedTagEventList
NamedTagEventLists == [Tag : TagNames, Items : TagItems]

TagLists == UNION {[1..n -> NamedTagEventLists] : n \in 0..MaxTags}

\* an *imagev1.ImageStream
ImageStream(tags) ==
    [isStream |-> TRUE, Namespace |-> "ns", Name |-> <<"is">>, Tags |-> tags]

\* an object of another kind: the type assertion of the handler fails
OtherObject == [isStream |-> FALSE, Namespace |-> "ns", Name |-> <<"is">>]

Objects == {OtherObject} \cup {ImageStream(t) : t \in TagLists}

\* reconcile.Request{Namespace, Name: name + ":" + tag}
Request(object, tag) ==
    [Namespace |-> object.Namespace, Name |-> object.Name \o <<":", tag>>]

\* the functions the mapper is made with: one that returns its request,
\* one that returns nothing, one that returns two requests for each
Upstreams == {"same", "nothing", "twice"}

CallUpstream(f, request) ==
    IF f = "same" THEN <<request>>
    ELSE IF f = "twice"
    THEN <<request, [Namespace |-> "other", Name |-> request.Name]>>
    ELSE <<>>

\* variant: two lists are the same element when they are of the same tag
namedTagEventListHasElementByTag(slice, element) ==
    \E i \in DOMAIN slice : slice[i].Tag = element.Tag

\* reflect.DeepEqual of the element with one of the slice
namedTagEventListHasElement(slice, element) ==
    \E i \in DOMAIN slice : slice[i] = element

\* the requests the handler passes to upstream for the tags from index i on,
\* the tags for which skip holds left out
RECURSIVE RequestsFrom(_, _, _, _)
RequestsFrom(object, tags, old, i) ==
    IF i > Len(tags) THEN <<>>
    ELSE IF namedTagEventListHasElement(old, tags[i])
    THEN RequestsFrom(object, tags, old, i + 1)
    ELSE <<Request(object, tags[i].Tag)>> \o RequestsFrom(object, tags, old, i + 1)

\* q.Add of every request upstream returns for each of the requests
RECURSIVE Enqueue(_, _, _)
Enqueue(f, requests, i) ==
    IF i > Len(requests) THEN <<>>
    ELSE CallUpstream(f, requests[i]) \o Enqueue(f, requests, i + 1)

MapperHandle(requests) ==
    /\ upstreamCalls' = upstreamCalls \o requests
    /\ queue' = queue \o Enqueue(upstream, requests, 1)
    /\ mapperPc' = "handled"
    /\ UNCHANGED <<event, upstream, canonVars, extractVars, driverVars>>

\* generic: every tag of the object, none skipped
generic(object) ==
    IF ~object.isStream THEN MapperHandle(<<>>)
    ELSE MapperHandle(RequestsFrom(object, object.Tags, <<>>, 1))

Create ==
    /\ mapperPc = "event"
    /\ event.kind = "Create"
    /\ generic(event.object)

Update ==
    /\ mapperPc = "event"
    /\ event.kind = "Update"
    /\ IF ~event.old.isStream \/ ~event.new.isStream
       THEN MapperHandle(<<>>)
       ELSE MapperHandle(RequestsFrom(event.new, event.new.Tags,
                                      event.old.Tags, 1))

Delete ==
    /\ mapperPc = "event"
    /\ event.kind = "Delete"
    /\ generic(event.object)

Generic ==
    /\ mapperPc = "event"
    /\ event.kind = "Generic"
    /\ generic(event.object)

MapperEvents ==
    {[kind |-> "Update", old |-> o, new |-> n] : o \in Objects, n \in Objects}
        \cup {[kind |-> k, object |-> o] :
                  k \in {"Create", "Delete", "Generic"}, o \in Objects}

InitMapper ==
    /\ CanonIdle
    /\ ExtractIdle
    /\ DriverIdle
    /\ event \in MapperEvents
    /\ upstream \in Upstreams
    /\ upstreamCalls = <<>>
    /\ queue = <<>>
    /\ mapperPc = "event"

NextMapper ==
    \/ Create
    \/ Update
    \/ Delete
    \/ Generic

SpecMapper == InitMapper /\ [][NextMapper]_vars

(***************************************************************************)
(* Claims about the mapper                                                 *)
(***************************************************************************)

UpdateHandled == mapperPc = "handled" /\ event.kind = "Update"

BothStreams == event.old.isStream /\ event.new.isStream

\* the indexes of the tags of the new stream with no identical list in the old
ChangedIndexes ==
    {i \in DOMAIN event.new.Tags :
        \A j \in DOMAIN event.old.Tags : event.old.Tags[j] # event.new.Tags[i]}

\* the k-th smallest element of a set of numbers
RECURSIVE Nth(_, _)
Nth(S, k) ==
    LET m == CHOOSE x \in S : \A y \in S : x <= y
    IN IF k = 1 THEN m ELSE Nth(S \ {m}, k - 1)

\* C27: an Update event of two ImageStreams passes to upstream, in the order
\* of the new stream's tags, exactly one request for each tag of the new
\* stream whose tag event list is deep-equal to none of the old stream's,
\* named <namespace>, <name>:<tag> after the new object, and adds to the
\* queue what upstream returns for each; tags with an identical list in the
\* old stream and tags only in the old stream give no request; and when
\* either object is not an ImageStream nothing is passed and nothing added.
C27_UpdateEnqueuesChangedTags ==
    UpdateHandled =>
        IF ~BothStreams THEN upstreamCalls = <<>> /\ queue = <<>>
        ELSE /\ Len(upstreamCalls) = Cardinality(ChangedIndexes)
             /\ \A k \in DOMAIN upstreamCalls :
                    upstreamCalls[k] =
                        [Namespace |-> event.new.Namespace,
                         Name |-> event.new.Name \o
                             <<":", event.new.Tags[Nth(ChangedIndexes, k)].Tag>>]
             /\ upstream = "same" => queue = upstreamCalls
             /\ upstream = "nothing" => queue = <<>>
             /\ upstream = "twice" =>
                    /\ Len(queue) = 2 * Len(upstreamCalls)
                    /\ \A k \in DOMAIN upstreamCalls :
                           /\ queue[2 * k - 1] = upstreamCalls[k]
                           /\ queue[2 * k].Name = upstreamCalls[k].Name

\* an update with a changed tag, an identical tag and a tag only in the old
\* stream has been handled and the one request was added to the queue
C27_Witness ==
    /\ UpdateHandled
    /\ BothStreams
    /\ upstream = "same"
    /\ Len(event.new.Tags) = 2
    /\ Cardinality(ChangedIndexes) = 1
    /\ \E j \in DOMAIN event.old.Tags :
           \A i \in DOMAIN event.new.Tags :
               event.old.Tags[j].Tag # event.new.Tags[i].Tag
    /\ \E i \in ChangedIndexes :
           \E j \in DOMAIN event.old.Tags :
               event.old.Tags[j].Tag = event.new.Tags[i].Tag
    /\ Len(queue) = 1

====
